---- MODULE Spec2Model ----
(***************************************************************************)
(* The Scoreboard of the conference bot (src/src/db/backendDb.ts, class    *)
(* Scoreboard): the per-room vote ledger byRoom, the cached ranking views  *)
(* byRoomCached, the engine lock, the temporary and the canonical snapshot *)
(* file, and the asynchronous operations that run on them: load, save,     *)
(* resetScoreboard, showQACountdown and the room.event handler with        *)
(* tryAddReaction, tryRemoveReaction and tryRemoveMessage.                 *)
(*                                                                         *)
(* An asynchronous operation is a task.  Each action is one run of a task  *)
(* from one suspension point (await) to the next.  A crash of the process  *)
(* followed by the construction of a new engine is the action Restart.     *)
(***************************************************************************)
EXTENDS Integers, Sequences, FiniteSets, TLC

(***************************************************************************)
(* Bounds of the model.                                                    *)
(***************************************************************************)
MaxTasks == 2
MaxOps == 2
MaxRestarts == 1
MaxTicks == 2
MaxCheckinCalls == 3
MaxRooms == 2
MaxCommands == 3
MaxRoomMessages == 3

JSON_FORMAT_VERSION == 1

(***************************************************************************)
(* Inputs.  r1 and r2 are stored auditoriums, r3 is another room the bot   *)
(* is in.  A reaction event carries its room, its own event id, the id of  *)
(* the message it relates to and the vote it stands for; an event id       *)
(* always names the same event.                                            *)
(***************************************************************************)
AuditoriumRooms == {"r1", "r2"}
ResetRooms == {"r1"}
Times == {10}

ReactionEvents ==
    { [room |-> "r1", event_id |-> "u1", target |-> "m1", isUpvote |-> TRUE],
      [room |-> "r1", event_id |-> "d1", target |-> "m1", isUpvote |-> FALSE],
      [room |-> "r1", event_id |-> "v1", target |-> "m2", isUpvote |-> TRUE],
      [room |-> "r3", event_id |-> "x1", target |-> "m3", isUpvote |-> TRUE] }

RedactionEvents ==
    { [room |-> "r1", redacts |-> "u1"],
      [room |-> "r1", redacts |-> "d1"],
      [room |-> "r1", redacts |-> "m1"],
      [room |-> "r3", redacts |-> "x1"] }

(* conference.storedAuditoriums.some(a => a.roomId === roomId) *)
IsAuditoriumAnyRoom(roomId) == TRUE
IsAuditorium(roomId) == roomId \in AuditoriumRooms

GetEventOutcomes == {"throw", "nontext", "text"}

(* the answer of client.getUserProfile for the sender of a message: the    *)
(* sender of m1 has a profile, the request for the sender of m2 fails      *)
GetUserProfile(target) == IF target = "m1" THEN "profile" ELSE "throw"

(***************************************************************************)
(* An optional value is a sequence of length 0 (undefined) or 1.           *)
(***************************************************************************)
Undefined == <<>>
Some(v) == <<v>>

(***************************************************************************)
(* RoomScoreboard and RoomMessage.  hasMessages is FALSE only for a room   *)
(* object that was read from a file and has no messages property.          *)
(***************************************************************************)
EmptyRoom == [hasMessages |-> TRUE, qaStartTime |-> Undefined, messages |-> <<>>]

NewMessage(eventId, senderName, senderHttpUrl) ==
    [eventId |-> eventId,
     text |-> "body",
     senderId |-> "@sender",
     senderName |-> senderName,
     senderHttpUrl |-> senderHttpUrl,
     activeUpvoteIds |-> <<>>,
     activeDownvoteIds |-> <<>>]

FindMessageNotFound(messages, eventId) == 0

(* Array.prototype.find on the index: 0 when no element satisfies it *)
FindMessage(messages, eventId) ==
    IF \E i \in 1..Len(messages) : messages[i].eventId = eventId
    THEN CHOOSE i \in 1..Len(messages) :
            /\ messages[i].eventId = eventId
            /\ \A j \in 1..(i - 1) : messages[j].eventId # eventId
    ELSE 0

Includes(s, x) == \E i \in 1..Len(s) : s[i] = x

IndexOf(s, x) ==
    IF Includes(s, x)
    THEN CHOOSE i \in 1..Len(s) : s[i] = x /\ \A j \in 1..(i - 1) : s[j] # x
    ELSE 0

SpliceLast(s, idx) == SubSeq(s, 1, Len(s) - 1)

(* splice(idx, 1) *)
Splice(s, idx) == [i \in 1..(Len(s) - 1) |-> IF i < idx THEN s[i] ELSE s[i + 1]]

FindUpvoteMessage(messages, id) ==
    IF \E i \in 1..Len(messages) : Includes(messages[i].activeUpvoteIds, id)
    THEN CHOOSE i \in 1..Len(messages) :
            /\ Includes(messages[i].activeUpvoteIds, id)
            /\ \A j \in 1..(i - 1) : ~Includes(messages[j].activeUpvoteIds, id)
    ELSE 0

FindDownvoteMessage(messages, id) ==
    IF \E i \in 1..Len(messages) : Includes(messages[i].activeDownvoteIds, id)
    THEN CHOOSE i \in 1..Len(messages) :
            /\ Includes(messages[i].activeDownvoteIds, id)
            /\ \A j \in 1..(i - 1) : ~Includes(messages[j].activeDownvoteIds, id)
    ELSE 0

(***************************************************************************)
(* State.                                                                  *)
(***************************************************************************)
VARIABLES
    byRoom,         \* this.byRoom: room id -> RoomScoreboard
    byRoomCached,   \* this.byRoomCached: room id -> CachedScoreboard
    lock,           \* this.lock: acquired flag and the queue of waiting tasks
    tasks,          \* the asynchronous operations in progress
    tmpFile,        \* scoreboard.json.tmp
    canonFile,      \* scoreboard.json
    ops,            \* number of calls and events handled so far
    restarts,       \* number of crashes so far; a crash counts in the bound on new calls and events
    served,         \* what the most recent call of getScoreboard returned
    delivered,      \* the events delivered to the room.event handler, in order
    domain,         \* this.domain: undefined until client.getUserId() has answered
    byRoomKeys,     \* the keys of this.byRoom in the order they were entered
    jobs,           \* the continuations that are due, in the order they were queued
    checkedIn,      \* CheckInMap: this.checkedIn, user id -> ICheckin
    checkinLock,    \* CheckInMap: this.lock
    checkinTasks,   \* CheckInMap: load, the calls and the event handlers in progress
    checkinsFile,   \* checkins.json
    now,            \* Date.now()
    checkinCalls,   \* CheckInMap: number of calls and events so far
    conference,     \* Conference: storedAuditoriums and storedInterestRooms
    plumbRun,       \* IrcPlumbCommand: the run of the command in progress
    setupRun,       \* IRCBridge: the run of setup()
    botRoomId,      \* IRCBridge: this.botRoomId
    ircClient,      \* IRCBridge: this.ircClient, made at the end of setup()
    listeners,      \* MatrixClient: the room.message listeners registered
    commands,       \* IRCBridge: the calls of executeCommand and their promises
    roomMessages    \* number of room.message events delivered so far

(* the state of CheckInMap *)
checkInVars == <<checkedIn, checkinLock, checkinTasks, checkinsFile, now, checkinCalls>>

(* the state of IrcPlumbCommand and of IRCBridge *)
ircVars == <<conference, plumbRun, setupRun, botRoomId, ircClient, listeners, commands,
             roomMessages>>

(* the state outside the Scoreboard *)
elsewhere == <<checkInVars, ircVars>>

vars == <<byRoom, byRoomCached, lock, tasks, tmpFile, canonFile, ops, restarts, served, delivered,
          domain, byRoomKeys, jobs, elsewhere>>

(***************************************************************************)
(* calculateRoom: the projection of a RoomScoreboard to a CachedScoreboard.*)
(***************************************************************************)
(* the domain of the bot's user id, once known *)
Domain == "example.org"

(* Permalinks.forEvent(roomId, eventId, [this.domain]) *)
Permalink(roomId, eventId) == [roomId |-> roomId, eventId |-> eventId, via |-> <<domain>>]

CachedMessageOfUpvotesOnly(roomId, message) ==
    [permalink |-> Permalink(roomId, message.eventId),
     senderAvatarHttpUrl |-> message.senderHttpUrl,
     senderName |-> message.senderName,
     senderId |-> message.senderId,
     text |-> message.text,
     upvotes |-> Len(message.activeUpvoteIds)]

CachedMessageOf(roomId, message) ==
    [permalink |-> Permalink(roomId, message.eventId),
     senderAvatarHttpUrl |-> message.senderHttpUrl,
     senderName |-> message.senderName,
     senderId |-> message.senderId,
     text |-> message.text,
     upvotes |-> Len(message.activeUpvoteIds) - Len(message.activeDownvoteIds)]

(* the comparator of messages.sort: negative when a sorts before b *)
CompareAscending(a, b) == a.upvotes - b.upvotes
Compare(a, b) == b.upvotes - a.upvotes

(* position at which a stable sort places x into the sorted prefix s *)
InsertPos(s, x) ==
    IF \E i \in 1..Len(s) : Compare(s[i], x) > 0
    THEN CHOOSE i \in 1..Len(s) :
            /\ Compare(s[i], x) > 0
            /\ \A j \in 1..(i - 1) : Compare(s[j], x) <= 0
    ELSE Len(s) + 1

InsertAt(s, p, x) ==
    [i \in 1..(Len(s) + 1) |-> IF i < p THEN s[i] ELSE IF i = p THEN x ELSE s[i - 1]]

RECURSIVE SortMessages(_)
SortMessages(s) ==
    IF s = <<>> THEN <<>>
    ELSE LET front == SortMessages(SubSeq(s, 1, Len(s) - 1))
             x == s[Len(s)]
         IN  InsertAt(front, InsertPos(front, x), x)

Project(roomId, scoreboard) ==
    [i \in 1..Len(scoreboard.messages) |-> CachedMessageOf(roomId, scoreboard.messages[i])]

CalculateRoom(roomId, scoreboard) ==
    [qaStartTime |-> scoreboard.qaStartTime,
     ordered |-> SortMessages(Project(roomId, scoreboard))]

(***************************************************************************)
(* JSON.stringify of {version, rooms} and JSON.parse of the file.  A       *)
(* property whose value is undefined is left out of the document; a        *)
(* property missing from the document reads as undefined.  The unit of an  *)
(* optional property in a document is the pair (has, value).               *)
(***************************************************************************)
NoNumber == 0
NoString == ""

StringifyOptNumberLost(o) == [has |-> FALSE, value |-> NoNumber]
StringifyOptNumber(o) == IF o = Undefined THEN [has |-> FALSE, value |-> NoNumber]
                                         ELSE [has |-> TRUE, value |-> o[1]]
StringifyOptString(o) == IF o = Undefined THEN [has |-> FALSE, value |-> NoString]
                                         ELSE [has |-> TRUE, value |-> o[1]]
ParseOpt(p) == IF p.has THEN Some(p.value) ELSE Undefined

StringifyMessage(m) ==
    [eventId |-> m.eventId,
     text |-> m.text,
     senderId |-> m.senderId,
     senderName |-> StringifyOptString(m.senderName),
     senderHttpUrl |-> StringifyOptString(m.senderHttpUrl),
     activeUpvoteIds |-> m.activeUpvoteIds,
     activeDownvoteIds |-> m.activeDownvoteIds]

ParseMessage(d) ==
    [eventId |-> d.eventId,
     text |-> d.text,
     senderId |-> d.senderId,
     senderName |-> ParseOpt(d.senderName),
     senderHttpUrl |-> ParseOpt(d.senderHttpUrl),
     activeUpvoteIds |-> d.activeUpvoteIds,
     activeDownvoteIds |-> d.activeDownvoteIds]

StringifyRoom(roomId, room) ==
    [roomId |-> roomId,
     hasMessages |-> room.hasMessages,
     qaStartTime |-> StringifyOptNumber(room.qaStartTime),
     messages |-> [i \in 1..Len(room.messages) |-> StringifyMessage(room.messages[i])]]

ParseRoom(d) ==
    [hasMessages |-> d.hasMessages,
     qaStartTime |-> ParseOpt(d.qaStartTime),
     messages |-> [i \in 1..Len(d.messages) |-> ParseMessage(d.messages[i])]]

(* the document: the content kind, the version and the rooms in the order *)
(* of the keys of the table, which is the order they were entered in      *)
Stringify(keys, table) ==
    [kind |-> "object",
     version |-> JSON_FORMAT_VERSION,
     rooms |-> [i \in 1..Len(keys) |-> StringifyRoom(keys[i], table[keys[i]])]]

NoDoc == [kind |-> "none", version |-> 0, rooms |-> <<>>]
BadJsonDoc == [kind |-> "badjson", version |-> 0, rooms |-> <<>>]
NullDoc == [kind |-> "null", version |-> 0, rooms |-> <<>>]

(***************************************************************************)
(* A file: state "absent", "unreadable", "partial" (a text that is being   *)
(* written or was cut off) or "complete" (the whole text of doc).  src is  *)
(* the room table the text was serialised from, kept for the proofs only.  *)
(***************************************************************************)
NoTable == <<>>
AbsentFile == [state |-> "absent", doc |-> NoDoc, src |-> NoTable]
FileOf(state, doc, src) == [state |-> state, doc |-> doc, src |-> src]

(* snapshots a previous run of the bot may have left behind *)
SavedMessage == [NewMessage("m1", Some("Alice"), Undefined) EXCEPT !.activeUpvoteIds = <<"u2">>]
SavedTable == [r \in {"r1"} |-> [EmptyRoom EXCEPT !.messages = <<SavedMessage>>]]
OtherVersionDoc == [Stringify(<<"r1">>, SavedTable) EXCEPT !.version = 2]
NoMessagesDoc ==
    [kind |-> "object", version |-> JSON_FORMAT_VERSION,
     rooms |-> << [roomId |-> "r1", hasMessages |-> FALSE,
                   qaStartTime |-> StringifyOptNumber(Undefined), messages |-> <<>>] >>]

(* what a previous run of the bot leaves at the canonical path *)
SavedFiles ==
    { AbsentFile,
      FileOf("complete", Stringify(<<"r1">>, SavedTable), SavedTable) }

(* the snapshot a run leaves that received the reaction u1 twice *)
TwiceMessage == [SavedMessage EXCEPT !.activeUpvoteIds = <<"u2", "u1", "u1">>]
TwiceTable == [r \in {"r1"} |-> [EmptyRoom EXCEPT !.messages = <<TwiceMessage>>]]
RedeliveredFiles == { FileOf("complete", Stringify(<<"r1">>, TwiceTable), TwiceTable) }

(* files that were damaged or written by something else *)
DamagedFiles ==
    { FileOf("unreadable", NoDoc, NoTable),
      FileOf("complete", BadJsonDoc, NoTable),
      FileOf("complete", NullDoc, NoTable),
      FileOf("complete", OtherVersionDoc, NoTable),
      FileOf("complete", NoMessagesDoc, NoTable) }

LoadTask == 0
Tasks == 0..MaxTasks
Callers == 1..MaxTasks

IdleTask ==
    [op |-> "idle", pc |-> "idle", room |-> "", id |-> "", target |-> "",
     isUpvote |-> FALSE, qaStartTime |-> 0, json |-> NoDoc,
     src |-> NoTable, interfered |-> FALSE, before |-> NoTable, seq |-> 0]

FreeLock == [acquired |-> FALSE, waiting |-> <<>>]

(* The log of delivered events is kept for the comparison of a run with    *)
(* the run that handles the same events one after the other.  It starts    *)
(* from the room table and the views that load has left (base); the entry  *)
(* of a reaction holds what getEvent answered for it, once asked.  The log  *)
(* is dropped (on = FALSE) when the run is no longer one of events alone:  *)
(* at a call of resetScoreboard or showQACountdown, a failing disk write   *)
(* or a crash.  The specifications that compare nothing keep no log.       *)
NoLog == [on |-> FALSE, base |-> [byRoom |-> NoTable, byRoomCached |-> NoTable], events |-> <<>>]

LogEntry(kind, event) ==
    [kind |-> kind, room |-> event.room,
     id |-> IF kind = "reaction" THEN event.event_id ELSE event.redacts,
     target |-> IF kind = "reaction" THEN event.target ELSE "",
     isUpvote |-> IF kind = "reaction" THEN event.isUpvote ELSE FALSE,
     answer |-> "unasked"]

Logged(log, kind, event) ==
    IF log.on THEN [log EXCEPT !.events = Append(@, LogEntry(kind, event))] ELSE log

(* the place of the event a new handler is started for *)
NextSeq(log) == IF log.on THEN Len(log.events) + 1 ELSE 0

Answered(log, seq, targetEv) ==
    IF log.on /\ seq > 0 THEN [log EXCEPT !.events[seq].answer = targetEv] ELSE log

(* no call of getScoreboard yet; held tells whether the lock was held by   *)
(* an operation at the time of the call                                    *)
NotServed == [room |-> "", result |-> Undefined, held |-> FALSE]

(***************************************************************************)
(* CheckInMap: the values of its state.                                    *)
(***************************************************************************)
Users == {"@a", "@b"}

CHECKIN_TIME == 4 * 60 * 60 * 1000

(* the clock at construction, and the times it is read at *)
StartTime == 1000
ClockTimes == {StartTime + k * (CHECKIN_TIME \div 2) : k \in 0..MaxTicks}

(* this.checkedIn = {} *)
NoCheckins == [u \in {} |-> [expires |-> 0]]

ICheckin(expires) == [expires |-> expires]

(* checkins.json: absent, or a text: the text JSON.stringify gives for a   *)
(* map (content), or a text that JSON.parse refuses (a write cut short)    *)
NoCheckinsFile == [state |-> "absent", content |-> NoCheckins]
CheckinsFileOf(content) == [state |-> "complete", content |-> content]
EmptyCheckinsFile == [state |-> "empty", content |-> NoCheckins]
CutCheckinsFile == [state |-> "cut", content |-> NoCheckins]

CheckinIdle == [op |-> "idle", pc |-> "idle", userIds |-> <<>>, text |-> NoCheckins]

(* the CheckInMap is not in use *)
CheckInMapUnused ==
    /\ checkedIn = NoCheckins
    /\ checkinLock = FreeLock
    /\ checkinTasks = [t \in Tasks |-> CheckinIdle]
    /\ checkinsFile = NoCheckinsFile
    /\ now = StartTime
    /\ checkinCalls = 0

(***************************************************************************)
(* IrcPlumbCommand and IRCBridge: the values of their state.               *)
(***************************************************************************)
NoConference == [storedAuditoriums |-> <<>>, storedInterestRooms |-> <<>>]

(* run() has not been called *)
PlumbIdle ==
    [pc |-> "idle", phase |-> "", i |-> 0, channelName |-> "",
     derived |-> <<>>, attempted |-> <<>>, warned |-> <<>>, notice |-> "", command |-> 0]

(* setup() has not been called *)
SetupIdle == [pc |-> "idle", command |-> 0]

Commands == 1..MaxCommands

(* executeCommand has not been called: no promise, no timer *)
NoCommand ==
    [pc |-> "idle", requestEventId |-> "", promise |-> "none", value |-> "", body |-> "",
     timer |-> "none", settles |-> 0, replies |-> <<>>]

IrcUnused ==
    /\ conference = NoConference
    /\ plumbRun = PlumbIdle
    /\ setupRun = SetupIdle
    /\ botRoomId = Undefined
    /\ ircClient = "none"
    /\ listeners = {}
    /\ commands = [c \in Commands |-> NoCommand]
    /\ roomMessages = 0

(* the Scoreboard alone is in use *)
ScoreboardAlone == CheckInMapUnused /\ IrcUnused

ScoreboardConstructed ==
    /\ byRoom = NoTable
    /\ byRoomCached = NoTable
    /\ lock = FreeLock
    /\ tasks = [t \in Tasks |-> IdleTask]
    /\ tmpFile = AbsentFile
    /\ ops = 0
    /\ restarts = 0
    /\ served = NotServed
    /\ delivered = NoLog
    /\ domain = Undefined
    /\ byRoomKeys = <<>>
    /\ jobs = <<>>

Constructed == ScoreboardAlone /\ ScoreboardConstructed

Init == Constructed /\ canonFile \in SavedFiles

InitAnyFile == Constructed /\ canonFile \in SavedFiles \cup DamagedFiles

InitRedelivered == Constructed /\ canonFile \in RedeliveredFiles

(***************************************************************************)
(* The lock (await-lock): acquireAsync takes a free lock at once and       *)
(* otherwise queues the caller; release hands the lock to the first waiter *)
(* or frees it.                                                            *)
(***************************************************************************)
AcquireAsync(l, t) ==
    IF l.acquired THEN [l EXCEPT !.waiting = Append(@, t)]
                  ELSE [l EXCEPT !.acquired = TRUE]

Release(l) ==
    IF l.waiting = <<>> THEN [l EXCEPT !.acquired = FALSE]
                        ELSE [l EXCEPT !.waiting = Tail(@)]

(* the waiter that release resumes continues inside its critical section *)
Resume(ts, l) ==
    IF l.waiting = <<>> THEN ts
    ELSE [ts EXCEPT ![Head(l.waiting)].pc =
                        IF @ = "save_waiting" THEN "save_locked" ELSE "locked"]

(* a task that calls acquireAsync: where it continues *)
AfterAcquireNotAwaited(l, lockedPc, waitingPc) == lockedPc
AfterAcquire(l, lockedPc, waitingPc) == IF l.acquired THEN waitingPc ELSE lockedPc

(* an assignment that replaces the whole table by the one entry *)
PutAlone(table, roomId, value) == [r \in {roomId} |-> value]

(* the keys of a table after an assignment to it: a new key comes last *)
Entered(keys, table) ==
    LET kept == SelectSeq(keys, LAMBDA k : k \in DOMAIN table)
        new == DOMAIN table \ {keys[i] : i \in 1..Len(keys)}
    IN  IF new = {} THEN kept ELSE Append(kept, CHOOSE k \in new : TRUE)

Put(table, roomId, value) ==
    [r \in (DOMAIN table) \cup {roomId} |-> IF r = roomId THEN value ELSE table[r]]

(* another operation changed the room table: tasks whose snapshot is still *)
(* to be written are marked                                                *)
MarkInterfered(ts, t, changed) ==
    [u \in Tasks |-> IF changed /\ u # t /\ ts[u].pc = "save_waiting"
                     THEN [ts[u] EXCEPT !.interfered = TRUE]
                     ELSE ts[u]]

(***************************************************************************)
(* Scheduling of the event loop.  jobs is the queue of promise jobs: each  *)
(* entry is a task whose continuation is ready to run, and they run first  *)
(* in, first out.  The continuation of an await on a settled promise (the  *)
(* lock just taken, calculateRoom, an operation that has returned) is      *)
(* queued in the turn that awaits; the one of a waiter of the lock in the  *)
(* turn that releases.  The completion of a file or network request runs   *)
(* when the queue is empty.  Calls from elsewhere in the bot and the       *)
(* delivery of an event may come between any two jobs.                     *)
(***************************************************************************)
(* the continuation release() queues: the one of the first waiter *)
Woken(l) == IF l.waiting = <<>> THEN <<>> ELSE <<Head(l.waiting)>>

(* the continuation of `await acquireAsync()` is queued at once when the   *)
(* lock was free                                                           *)
Taken(l, t) == IF AfterAcquire(l, "locked", "waiting") = "locked" THEN <<t>> ELSE <<>>

(* the job at the head of the queue is the continuation of t *)
Runs(t) == jobs # <<>> /\ Head(jobs) = t

MicrotaskPending == jobs # <<>>

FreeSlot(t) ==
    /\ t \in Callers
    /\ tasks[t].op = "idle"
    /\ \A u \in Callers : u < t => tasks[u].op # "idle"
    /\ ops + restarts < MaxOps

(* a call or a handler has started and has run up to its await of the lock *)
Started(t, task) ==
    [tasks EXCEPT ![t] = [task EXCEPT !.pc = AfterAcquire(lock, "locked", "waiting")]]

(***************************************************************************)
(* The constructor asks for the user id of the bot and does not wait for   *)
(* the answer: this.domain is set when client.getUserId() answers.         *)
(***************************************************************************)
GetUserIdAnswered ==
    /\ domain = Undefined
    /\ ~MicrotaskPending
    /\ domain' = Some(Domain)
    /\ UNCHANGED <<byRoom, byRoomKeys, byRoomCached, lock, tasks, tmpFile, canonFile, ops, restarts,
                   served, delivered, jobs, elsewhere>>

(***************************************************************************)
(* getScoreboard: a synchronous read of byRoomCached; the property of a    *)
(* room without a computed view reads as undefined.                        *)
(***************************************************************************)
GetScoreboardEmptyForUnknown(cached, roomId) ==
    IF roomId \in DOMAIN cached THEN Some(cached[roomId])
                                ELSE Some([qaStartTime |-> Undefined, ordered |-> <<>>])

GetScoreboard(cached, roomId) ==
    IF roomId \in DOMAIN cached THEN Some(cached[roomId]) ELSE Undefined

GetScoreboardCalled(roomId) ==
    /\ ops + restarts < MaxOps
    /\ served' = [room |-> roomId, result |-> GetScoreboard(byRoomCached, roomId),
                  held |-> lock.acquired]
    /\ ops' = ops + 1
    /\ UNCHANGED <<byRoom, byRoomKeys, byRoomCached, lock, tasks, tmpFile, canonFile, restarts,
                   delivered, domain, jobs, elsewhere>>

(***************************************************************************)
(* resetScoreboard                                                         *)
(***************************************************************************)
ResetScoreboard(t, roomId) ==
    /\ FreeSlot(t)
    /\ lock' = AcquireAsync(lock, t)
    /\ tasks' = Started(t, [IdleTask EXCEPT !.op = "resetScoreboard", !.room = roomId])
    /\ ops' = ops + 1
    /\ delivered' = NoLog
    /\ jobs' = jobs \o Taken(lock, t)
    /\ UNCHANGED <<domain, elsewhere>>
    /\ UNCHANGED <<byRoom, byRoomKeys, byRoomCached, tmpFile, canonFile, restarts, served>>

ResetScoreboardBodyStaleView(t) ==
    /\ tasks[t].op = "resetScoreboard"
    /\ tasks[t].pc = "locked"
    /\ Runs(t)
    /\ byRoom' = Put(byRoom, tasks[t].room, EmptyRoom)
    /\ byRoomKeys' = Entered(byRoomKeys, byRoom')
    /\ tasks' = MarkInterfered([tasks EXCEPT ![t].pc = "calculated"], t, byRoom' # byRoom)
    /\ UNCHANGED <<byRoomCached, lock, tmpFile, canonFile, ops, restarts, served, delivered, domain, elsewhere>>
    /\ jobs' = Append(Tail(jobs), t)

ResetScoreboardBodyKeepsCountdown(t) ==
    /\ tasks[t].op = "resetScoreboard"
    /\ tasks[t].pc = "locked"
    /\ Runs(t)
    /\ LET roomId == tasks[t].room
           kept == IF roomId \in DOMAIN byRoom THEN byRoom[roomId].qaStartTime ELSE Undefined
           table == Put(byRoom, roomId, [EmptyRoom EXCEPT !.qaStartTime = kept])
       IN  /\ byRoom' = table
           /\ byRoomKeys' = Entered(byRoomKeys, byRoom')
           /\ byRoomCached' = Put(byRoomCached, roomId, CalculateRoom(roomId, table[roomId]))
           /\ tasks' = MarkInterfered([tasks EXCEPT ![t].pc = "calculated"], t, table # byRoom)
    /\ UNCHANGED <<lock, tmpFile, canonFile, ops, restarts, served, delivered, domain, elsewhere>>
    /\ jobs' = Append(Tail(jobs), t)

ResetScoreboardBody(t) ==
    /\ tasks[t].op = "resetScoreboard"
    /\ tasks[t].pc = "locked"
    /\ Runs(t)
    /\ LET roomId == tasks[t].room
           table == Put(byRoom, roomId, EmptyRoom)
       IN  /\ byRoom' = table
           /\ byRoomKeys' = Entered(byRoomKeys, byRoom')
           /\ byRoomCached' = Put(byRoomCached, roomId, CalculateRoom(roomId, table[roomId]))
           /\ tasks' = MarkInterfered([tasks EXCEPT ![t].pc = "calculated"], t, table # byRoom)
    /\ UNCHANGED <<lock, tmpFile, canonFile, ops, restarts, served, delivered, domain, elsewhere>>
    /\ jobs' = Append(Tail(jobs), t)

(***************************************************************************)
(* How a task leaves a critical section.  finally { lock.release() } runs  *)
(* in the same turn as what follows it: the return of the operation, or    *)
(* the call of save() up to its await of the lock.                         *)
(***************************************************************************)
ReleaseThenEnd(ts, t) == [Resume(ts, lock) EXCEPT ![t] = IdleTask]

(* an error leaves the operation and no finally resumes the next waiter *)
ThrowWithoutRelease(ts, t) ==
    [ts EXCEPT ![t] = [IdleTask EXCEPT !.op = ts[t].op, !.room = ts[t].room, !.pc = "raised"]]

(* an error leaves the try block: finally releases the lock and the promise *)
(* of the operation is rejected; the one who awaits it goes on a job later  *)
ReleaseThenThrow(ts, t) ==
    [Resume(ts, lock) EXCEPT ![t] = [IdleTask EXCEPT !.op = ts[t].op, !.room = ts[t].room,
                                                     !.pc = "raised"]]

ReleaseThenCall(ts, t, op, lockedPc, waitingPc) ==
    [Resume(ts, lock) EXCEPT ![t].op = op,
                             ![t].interfered = FALSE,
                             ![t].pc = AfterAcquire(Release(lock), lockedPc, waitingPc)]

(* the operation returns.  The room.event handler that awaits              *)
(* tryRemoveReaction has tryRemoveMessage still to call, and goes on in a  *)
(* later job (pc); after any other operation nothing is left to do.        *)
ReleaseThenReturn(ts, t, pc) ==
    IF ts[t].op = "tryRemoveReaction"
    THEN [Resume(ts, lock) EXCEPT ![t] = [IdleTask EXCEPT !.op = ts[t].op, !.room = ts[t].room,
                                                          !.id = ts[t].id, !.seq = ts[t].seq,
                                                          !.pc = pc]]
    ELSE ReleaseThenEnd(ts, t)

(* the job a returning operation queues *)
Returning(ts, t) == IF ts[t].op = "tryRemoveReaction" THEN <<t>> ELSE <<>>

(* the job after `await this.calculateRoom(roomId)`, with the call of      *)
(* save() left out                                                         *)
ReleaseWithoutSave(t) ==
    /\ t \in Callers
    /\ tasks[t].pc \in {"calculated", "throwing"}
    /\ Runs(t)
    /\ lock' = Release(lock)
    /\ IF tasks[t].pc = "throwing"
       THEN /\ tasks' = ReleaseThenThrow(tasks, t)
            /\ jobs' = Tail(jobs) \o Woken(lock) \o <<t>>
       ELSE /\ tasks' = ReleaseThenReturn(tasks, t, "returned")
            /\ jobs' = Tail(jobs) \o Woken(lock) \o Returning(tasks, t)
    /\ UNCHANGED <<byRoom, byRoomKeys, byRoomCached, tmpFile, canonFile, ops, restarts, served, delivered, domain, elsewhere>>

(* the job after `await this.calculateRoom(roomId)`.  calculateRoom was    *)
(* rejected (showQACountdown of a room without a message list): the await  *)
(* throws, finally releases the lock and the error leaves the operation.   *)
(* Otherwise: finally { release } followed by await this.save().           *)
ReleaseThenSave(t) ==
    /\ t \in Callers
    /\ tasks[t].pc \in {"calculated", "throwing"}
    /\ Runs(t)
    /\ IF tasks[t].pc = "throwing"
       THEN /\ lock' = Release(lock)
            /\ tasks' = ReleaseThenThrow(tasks, t)
            /\ jobs' = Tail(jobs) \o Woken(lock) \o <<t>>
       ELSE /\ lock' = AcquireAsync(Release(lock), t)
            /\ tasks' = ReleaseThenCall(tasks, t, tasks[t].op, "save_locked", "save_waiting")
            /\ jobs' = Tail(jobs) \o Woken(lock) \o Taken(Release(lock), t)
    /\ UNCHANGED <<byRoom, byRoomKeys, byRoomCached, tmpFile, canonFile, ops, restarts, served, delivered, domain, elsewhere>>

(***************************************************************************)
(* showQACountdown                                                         *)
(***************************************************************************)
ShowQACountdown(t, roomId, qaStartTime) ==
    /\ FreeSlot(t)
    /\ lock' = AcquireAsync(lock, t)
    /\ tasks' = Started(t, [IdleTask EXCEPT !.op = "showQACountdown", !.room = roomId,
                                            !.qaStartTime = qaStartTime])
    /\ ops' = ops + 1
    /\ delivered' = NoLog
    /\ jobs' = jobs \o Taken(lock, t)
    /\ UNCHANGED <<domain, elsewhere>>
    /\ UNCHANGED <<byRoom, byRoomKeys, byRoomCached, tmpFile, canonFile, restarts, served>>

(* showQACountdown that assigns a new room whether or not one exists *)
ShowQACountdownBodyNewRoom(t) ==
    /\ tasks[t].op = "showQACountdown"
    /\ tasks[t].pc = "locked"
    /\ Runs(t)
    /\ LET roomId == tasks[t].room
           table == Put(byRoom, roomId,
                        [EmptyRoom EXCEPT !.qaStartTime = Some(tasks[t].qaStartTime)])
       IN  /\ byRoom' = table
           /\ byRoomKeys' = Entered(byRoomKeys, byRoom')
           /\ byRoomCached' = Put(byRoomCached, roomId, CalculateRoom(roomId, table[roomId]))
           /\ tasks' = MarkInterfered([tasks EXCEPT ![t].pc = "calculated"], t, table # byRoom)
           /\ lock' = lock
    /\ UNCHANGED <<tmpFile, canonFile, ops, restarts, served, delivered, domain, elsewhere>>
    /\ jobs' = Append(Tail(jobs), t)

ShowQACountdownBody(t) ==
    /\ tasks[t].op = "showQACountdown"
    /\ tasks[t].pc = "locked"
    /\ Runs(t)
    /\ LET roomId == tasks[t].room
           created == IF roomId \in DOMAIN byRoom THEN byRoom ELSE Put(byRoom, roomId, EmptyRoom)
           table == [created EXCEPT ![roomId].qaStartTime = Some(tasks[t].qaStartTime)]
       IN  /\ byRoom' = table
           /\ byRoomKeys' = Entered(byRoomKeys, byRoom')
           /\ IF table[roomId].hasMessages
              THEN /\ byRoomCached' = Put(byRoomCached, roomId, CalculateRoom(roomId, table[roomId]))
                   /\ tasks' = MarkInterfered([tasks EXCEPT ![t].pc = "calculated"], t, table # byRoom)
                   /\ lock' = lock
              ELSE \* calculateRoom throws on scoreboard.messages: its promise is
                   \* rejected, and the await hands the turn back with the lock held
                   /\ byRoomCached' = byRoomCached
                   /\ tasks' = MarkInterfered([tasks EXCEPT ![t].pc = "throwing"], t, table # byRoom)
                   /\ lock' = lock
    /\ jobs' = Append(Tail(jobs), t)
    /\ UNCHANGED <<tmpFile, canonFile, ops, restarts, served, delivered, domain, elsewhere>>

(***************************************************************************)
(* room.event with type m.reaction: tryAddReaction                         *)
(***************************************************************************)
RoomEventReaction(t, event) ==
    /\ FreeSlot(t)
    /\ LET task == [IdleTask EXCEPT !.op = "tryAddReaction", !.room = event.room,
                                    !.id = event.event_id, !.target = event.target,
                                    !.isUpvote = event.isUpvote, !.seq = NextSeq(delivered)]
       IN  IF IsAuditorium(event.room)
           THEN /\ lock' = AcquireAsync(lock, t)
                /\ tasks' = Started(t, task)
                /\ jobs' = jobs \o Taken(lock, t)
           ELSE \* return: the handler awaits a promise that is resolved
                /\ lock' = lock
                /\ tasks' = [tasks EXCEPT ![t] = [task EXCEPT !.pc = "returned"]]
                /\ jobs' = Append(jobs, t)
    /\ ops' = ops + 1
    /\ delivered' = Logged(delivered, "reaction", event)
    /\ UNCHANGED <<domain, elsewhere>>
    /\ UNCHANGED <<byRoom, byRoomKeys, byRoomCached, tmpFile, canonFile, restarts, served>>

PushVoteBoth(message, isUpvote, id) ==
    [message EXCEPT !.activeUpvoteIds = Append(@, id), !.activeDownvoteIds = Append(@, id)]

PushVote(message, isUpvote, id) ==
    IF isUpvote THEN [message EXCEPT !.activeUpvoteIds = Append(@, id)]
                ELSE [message EXCEPT !.activeDownvoteIds = Append(@, id)]

TryAddReactionBody(t) ==
    /\ tasks[t].op = "tryAddReaction"
    /\ tasks[t].pc = "locked"
    /\ Runs(t)
    /\ LET roomId == tasks[t].room
           created == IF roomId \in DOMAIN byRoom THEN byRoom ELSE Put(byRoom, roomId, EmptyRoom)
           scoreboard == created[roomId]
           idx == FindMessage(scoreboard.messages, tasks[t].target)
           table == [created EXCEPT ![roomId].messages[idx] =
                                        PushVote(@, tasks[t].isUpvote, tasks[t].id)]
       IN  IF ~scoreboard.hasMessages
           THEN \* scoreboard.messages.find throws
                /\ byRoom' = created
                /\ byRoomKeys' = Entered(byRoomKeys, byRoom')
                /\ byRoomCached' = byRoomCached
                /\ tasks' = ReleaseThenThrow(tasks, t)
                /\ lock' = Release(lock)
                /\ jobs' = Tail(jobs) \o Woken(lock) \o <<t>>
           ELSE IF idx > 0
           THEN /\ byRoom' = table
                /\ byRoomKeys' = Entered(byRoomKeys, byRoom')
                /\ byRoomCached' = Put(byRoomCached, roomId, CalculateRoom(roomId, table[roomId]))
                /\ tasks' = MarkInterfered([tasks EXCEPT ![t].pc = "calculated"], t, TRUE)
                /\ lock' = lock
                /\ jobs' = Append(Tail(jobs), t)
           ELSE \* await this.client.getEvent(...)
                /\ byRoom' = created
                /\ byRoomKeys' = Entered(byRoomKeys, byRoom')
                /\ byRoomCached' = byRoomCached
                /\ tasks' = MarkInterfered([tasks EXCEPT ![t].pc = "fetching"], t, created # byRoom)
                /\ lock' = lock
                /\ jobs' = Tail(jobs)
    /\ UNCHANGED <<tmpFile, canonFile, ops, restarts, served, delivered, domain, elsewhere>>

(* the RoomMessage when the vote is pushed after the profile was fetched, *)
(* inside the try block                                                   *)
FetchedMessageVoteInsideTry(target, isUpvote, id) ==
    IF GetUserProfile(target) = "profile"
    THEN PushVote(NewMessage(target, Some("Alice"), Some("thumbnail")), isUpvote, id)
    ELSE NewMessage(target, Undefined, Undefined)

(* the RoomMessage built from the fetched event and the profile *)
FetchedMessage(target, isUpvote, id) ==
    LET profile == GetUserProfile(target)
    IN  PushVote(NewMessage(target,
                            IF profile = "profile" THEN Some("Alice") ELSE Undefined,
                            IF profile = "profile" THEN Some("thumbnail") ELSE Undefined),
                 isUpvote, id)

(* getEvent has answered or failed.  For a text message the profile of its *)
(* sender is asked for next, with the lock still held.                     *)
TryAddReactionFetched(t, targetEv) ==
    /\ tasks[t].op = "tryAddReaction"
    /\ tasks[t].pc = "fetching"
    /\ ~MicrotaskPending
    /\ IF targetEv = "throw"
       THEN \* getEvent threw: nothing catches it
            /\ tasks' = ReleaseThenThrow(tasks, t)
            /\ lock' = Release(lock)
            /\ jobs' = Woken(lock) \o <<t>>
       ELSE IF targetEv # "text"
       THEN \* the target is not a text message: return
            /\ tasks' = ReleaseThenEnd(tasks, t)
            /\ lock' = Release(lock)
            /\ jobs' = Woken(lock)
       ELSE \* await this.client.getUserProfile(message.senderId)
            /\ tasks' = [tasks EXCEPT ![t].pc = "profile"]
            /\ lock' = lock
            /\ jobs' = jobs
    /\ delivered' = Answered(delivered, tasks[t].seq, targetEv)
    /\ UNCHANGED <<domain, elsewhere>>
    /\ UNCHANGED <<byRoom, byRoomKeys, byRoomCached, tmpFile, canonFile, ops, restarts, served>>

(* getUserProfile has answered or failed: the message is pushed and the    *)
(* view of the room computed                                               *)
GetUserProfileAnswered(t) ==
    /\ tasks[t].op = "tryAddReaction"
    /\ tasks[t].pc = "profile"
    /\ ~MicrotaskPending
    /\ LET roomId == tasks[t].room
           message == FetchedMessage(tasks[t].target, tasks[t].isUpvote, tasks[t].id)
           table == [byRoom EXCEPT ![roomId].messages = Append(@, message)]
       IN  /\ byRoom' = table
           /\ byRoomKeys' = Entered(byRoomKeys, byRoom')
           /\ byRoomCached' = Put(byRoomCached, roomId, CalculateRoom(roomId, table[roomId]))
           /\ tasks' = MarkInterfered([tasks EXCEPT ![t].pc = "calculated"], t, TRUE)
    /\ jobs' = <<t>>
    /\ UNCHANGED <<lock, tmpFile, canonFile, ops, restarts, served, delivered, domain, elsewhere>>

(***************************************************************************)
(* room.event with type m.room.redaction: tryRemoveReaction and then       *)
(* tryRemoveMessage                                                        *)
(***************************************************************************)
RoomEventRedaction(t, event) ==
    /\ FreeSlot(t)
    /\ LET task == [IdleTask EXCEPT !.op = "tryRemoveReaction", !.room = event.room,
                                    !.id = event.redacts, !.seq = NextSeq(delivered)]
       IN  IF IsAuditorium(event.room)
           THEN /\ lock' = AcquireAsync(lock, t)
                /\ tasks' = Started(t, task)
                /\ jobs' = jobs \o Taken(lock, t)
           ELSE \* return: the handler awaits a promise that is resolved
                /\ lock' = lock
                /\ tasks' = [tasks EXCEPT ![t] = [task EXCEPT !.pc = "returned"]]
                /\ jobs' = Append(jobs, t)
    /\ ops' = ops + 1
    /\ delivered' = Logged(delivered, "redaction", event)
    /\ UNCHANGED <<domain, elsewhere>>
    /\ UNCHANGED <<byRoom, byRoomKeys, byRoomCached, tmpFile, canonFile, restarts, served>>

RemoveVote(ids, id) == IF IndexOf(ids, id) > 0 THEN Splice(ids, IndexOf(ids, id)) ELSE ids

TryRemoveReactionBody(t) ==
    /\ tasks[t].op = "tryRemoveReaction"
    /\ tasks[t].pc = "locked"
    /\ Runs(t)
    /\ LET roomId == tasks[t].room
           messages == byRoom[roomId].messages
           up == FindUpvoteMessage(messages, tasks[t].id)
           down == FindDownvoteMessage(messages, tasks[t].id)
           upRemoved == IF up > 0
                        THEN [messages EXCEPT ![up].activeUpvoteIds = RemoveVote(@, tasks[t].id)]
                        ELSE messages
           removed == IF down > 0
                      THEN [upRemoved EXCEPT ![down].activeDownvoteIds = RemoveVote(@, tasks[t].id)]
                      ELSE upRemoved
           table == [byRoom EXCEPT ![roomId].messages = removed]
       IN  IF roomId \notin DOMAIN byRoom
           THEN \* return: finally releases, the handler goes on a job later
                /\ UNCHANGED <<byRoom, byRoomKeys, byRoomCached>>
                /\ tasks' = ReleaseThenReturn(tasks, t, "returned")
                /\ lock' = Release(lock)
                /\ jobs' = Tail(jobs) \o Woken(lock) \o Returning(tasks, t)
           ELSE IF ~byRoom[roomId].hasMessages
           THEN \* scoreboard.messages.find throws: the handler ends
                /\ UNCHANGED <<byRoom, byRoomKeys, byRoomCached>>
                /\ tasks' = ReleaseThenThrow(tasks, t)
                /\ lock' = Release(lock)
                /\ jobs' = Tail(jobs) \o Woken(lock) \o <<t>>
           ELSE IF up = 0 /\ down = 0
           THEN /\ UNCHANGED <<byRoom, byRoomKeys, byRoomCached>>
                /\ tasks' = ReleaseThenReturn(tasks, t, "returned")
                /\ lock' = Release(lock)
                /\ jobs' = Tail(jobs) \o Woken(lock) \o Returning(tasks, t)
           ELSE /\ byRoom' = table
                /\ byRoomKeys' = Entered(byRoomKeys, byRoom')
                /\ byRoomCached' = Put(byRoomCached, roomId, CalculateRoom(roomId, table[roomId]))
                /\ tasks' = MarkInterfered([tasks EXCEPT ![t].pc = "calculated"], t, TRUE)
                /\ lock' = lock
                /\ jobs' = Append(Tail(jobs), t)
    /\ UNCHANGED <<tmpFile, canonFile, ops, restarts, served, delivered, domain, elsewhere>>

TryRemoveMessageBody(t) ==
    /\ tasks[t].op = "tryRemoveMessage"
    /\ tasks[t].pc = "locked"
    /\ Runs(t)
    /\ LET roomId == tasks[t].room
           messages == byRoom[roomId].messages
           idx == FindMessage(messages, tasks[t].id)
           table == [byRoom EXCEPT ![roomId].messages = Splice(messages, idx)]
       IN  IF roomId \in DOMAIN byRoom /\ ~byRoom[roomId].hasMessages
           THEN \* scoreboard.messages.find throws
                /\ UNCHANGED <<byRoom, byRoomKeys, byRoomCached>>
                /\ tasks' = ReleaseThenThrow(tasks, t)
                /\ lock' = Release(lock)
                /\ jobs' = Tail(jobs) \o Woken(lock) \o <<t>>
           ELSE IF roomId \notin DOMAIN byRoom \/ idx = 0
           THEN \* return
                /\ UNCHANGED <<byRoom, byRoomKeys, byRoomCached>>
                /\ tasks' = ReleaseThenEnd(tasks, t)
                /\ lock' = Release(lock)
                /\ jobs' = Tail(jobs) \o Woken(lock)
           ELSE /\ byRoom' = table
                /\ byRoomKeys' = Entered(byRoomKeys, byRoom')
                /\ byRoomCached' = Put(byRoomCached, roomId, CalculateRoom(roomId, table[roomId]))
                /\ tasks' = MarkInterfered([tasks EXCEPT ![t].pc = "calculated"], t, TRUE)
                /\ lock' = lock
                /\ jobs' = Append(Tail(jobs), t)
    /\ UNCHANGED <<tmpFile, canonFile, ops, restarts, served, delivered, domain, elsewhere>>

(***************************************************************************)
(* save, as called at the end of every mutating operation                  *)
(***************************************************************************)
SaveBeginInPlace(t) ==
    /\ t \in Callers
    /\ tasks[t].pc = "save_locked"
    /\ Runs(t)
    /\ canonFile' = FileOf("partial", NoDoc, NoTable)
    /\ tasks' = [tasks EXCEPT ![t].pc = "writing", ![t].json = Stringify(byRoomKeys, byRoom),
                              ![t].src = byRoom]
    /\ jobs' = Tail(jobs)
    /\ UNCHANGED <<byRoom, byRoomKeys, byRoomCached, lock, tmpFile, ops, restarts, served, delivered, domain, elsewhere>>

SaveBegin(t) ==
    /\ t \in Callers
    /\ tasks[t].pc = "save_locked"
    /\ Runs(t)
    /\ tmpFile' = FileOf("partial", NoDoc, NoTable)
    /\ tasks' = [tasks EXCEPT ![t].pc = "writing", ![t].json = Stringify(byRoomKeys, byRoom),
                              ![t].src = byRoom]
    /\ jobs' = Tail(jobs)
    /\ UNCHANGED <<byRoom, byRoomKeys, byRoomCached, lock, canonFile, ops, restarts, served, delivered, domain, elsewhere>>

SaveWritten(t) ==
    /\ t \in Callers
    /\ tasks[t].pc = "writing"
    /\ ~MicrotaskPending
    /\ tmpFile' = FileOf("complete", tasks[t].json, tasks[t].src)
    /\ tasks' = [tasks EXCEPT ![t].pc = "renaming"]
    /\ UNCHANGED <<byRoom, byRoomKeys, byRoomCached, lock, canonFile, ops, restarts, served, delivered, domain, jobs, elsewhere>>

(* fs.rename replaces the canonical file by the temporary file in one step *)
Rename(tmp, canon) == [tmp |-> AbsentFile, canon |-> tmp]

(* the rename is done: finally releases the lock and save() returns *)
SaveRenamed(t) ==
    /\ t \in Callers
    /\ tasks[t].pc = "renaming"
    /\ ~MicrotaskPending
    /\ tmpFile' = Rename(tmpFile, canonFile).tmp
    /\ canonFile' = Rename(tmpFile, canonFile).canon
    /\ tasks' = ReleaseThenReturn(tasks, t, "saved")
    /\ lock' = Release(lock)
    /\ jobs' = Woken(lock) \o Returning(tasks, t)
    /\ UNCHANGED <<byRoom, byRoomKeys, byRoomCached, ops, restarts, served, delivered, domain, elsewhere>>

(* fs.writeFile or fs.rename rejects and the error is swallowed *)
SaveFailedSilently(t) ==
    /\ t \in Callers
    /\ tasks[t].pc \in {"writing", "renaming"}
    /\ ~MicrotaskPending
    /\ tasks' = ReleaseThenReturn(tasks, t, "saved")
    /\ lock' = Release(lock)
    /\ jobs' = Woken(lock) \o Returning(tasks, t)
    /\ delivered' = NoLog
    /\ UNCHANGED <<domain, elsewhere>>
    /\ UNCHANGED <<byRoom, byRoomKeys, byRoomCached, tmpFile, canonFile, ops, restarts, served>>

(* fs.writeFile or fs.rename rejects: the error leaves save and its caller *)
SaveFailed(t) ==
    /\ t \in Callers
    /\ tasks[t].pc \in {"writing", "renaming"}
    /\ ~MicrotaskPending
    /\ tasks' = ReleaseThenThrow(tasks, t)
    /\ lock' = Release(lock)
    /\ jobs' = Woken(lock) \o <<t>>
    /\ delivered' = NoLog
    /\ UNCHANGED <<domain, elsewhere>>
    /\ UNCHANGED <<byRoom, byRoomKeys, byRoomCached, tmpFile, canonFile, ops, restarts, served>>

(***************************************************************************)
(* The continuations that settle promises.  save() has returned to         *)
(* tryRemoveReaction, which returns to the room.event handler.  The        *)
(* handler whose awaited operation has returned goes on: after             *)
(* tryRemoveReaction it calls tryRemoveMessage, which runs up to its await *)
(* of the lock, or returns at once when the room is no auditorium.  The    *)
(* handler, or the caller of resetScoreboard or of showQACountdown, whose  *)
(* awaited operation was rejected: the error is raised to whoever called.  *)
(***************************************************************************)
SaveReturned(t) ==
    /\ t \in Callers
    /\ tasks[t].pc = "saved"
    /\ Runs(t)
    /\ tasks' = [tasks EXCEPT ![t].pc = "returned"]
    /\ jobs' = Append(Tail(jobs), t)
    /\ UNCHANGED <<byRoom, byRoomKeys, byRoomCached, lock, tmpFile, canonFile, ops, restarts, served, delivered, domain, elsewhere>>

HandlerReturned(t) ==
    /\ t \in Callers
    /\ tasks[t].pc = "returned"
    /\ Runs(t)
    /\ IF tasks[t].op = "tryRemoveReaction"
       THEN \* await this.tryRemoveMessage(roomId, event)
            IF IsAuditorium(tasks[t].room)
            THEN /\ lock' = AcquireAsync(lock, t)
                 /\ tasks' = [tasks EXCEPT ![t].op = "tryRemoveMessage",
                                           ![t].pc = AfterAcquire(lock, "locked", "waiting")]
                 /\ jobs' = Tail(jobs) \o Taken(lock, t)
            ELSE /\ lock' = lock
                 /\ tasks' = [tasks EXCEPT ![t].op = "tryRemoveMessage"]
                 /\ jobs' = Append(Tail(jobs), t)
       ELSE /\ lock' = lock
            /\ tasks' = [tasks EXCEPT ![t] = IdleTask]
            /\ jobs' = Tail(jobs)
    /\ UNCHANGED <<byRoom, byRoomKeys, byRoomCached, tmpFile, canonFile, ops, restarts, served, delivered, domain, elsewhere>>

HandlerRejected(t) ==
    /\ t \in Callers
    /\ tasks[t].pc = "raised"
    /\ Runs(t)
    /\ tasks' = [tasks EXCEPT ![t] = IdleTask]
    /\ jobs' = Tail(jobs)
    /\ UNCHANGED <<byRoom, byRoomKeys, byRoomCached, lock, tmpFile, canonFile, ops, restarts, served, delivered, domain, elsewhere>>

(***************************************************************************)
(* load                                                                    *)
(***************************************************************************)
(* what load does with the content of the file before it takes the lock *)
LoadOutcome(file) ==
    IF file.state \in {"absent", "unreadable"} THEN "return"
    ELSE IF file.state = "partial" \/ file.doc.kind = "badjson" THEN "return"
    ELSE IF file.doc.kind = "null" THEN "throw"
    ELSE IF file.doc.version # JSON_FORMAT_VERSION THEN "return"
    ELSE "acquire"

LoadRead ==
    /\ tasks[LoadTask].op = "idle"
    /\ ~MicrotaskPending
    /\ LET outcome == LoadOutcome(canonFile)
       IN  IF outcome = "acquire"
           THEN /\ lock' = AcquireAsync(lock, LoadTask)
                /\ tasks' = [tasks EXCEPT ![LoadTask] =
                       [IdleTask EXCEPT !.op = "load", !.json = canonFile.doc,
                                        !.src = canonFile.src,
                                        !.pc = AfterAcquire(lock, "locked", "waiting")]]
           ELSE /\ lock' = lock
                /\ tasks' = [tasks EXCEPT ![LoadTask] =
                       [IdleTask EXCEPT !.op = "load",
                                        !.pc = IF outcome = "throw" THEN "raised" ELSE "done"]]
    /\ jobs' = IF LoadOutcome(canonFile) = "acquire" THEN Taken(lock, LoadTask) ELSE jobs
    /\ UNCHANGED <<byRoom, byRoomKeys, byRoomCached, tmpFile, canonFile, ops, restarts, served, delivered, domain, elsewhere>>

(* the loop over json.rooms: it ends early when calculateRoom throws *)
RECURSIVE LoadRoomsKeepLive(_, _, _)
LoadRoomsKeepLive(rooms, table, cached) ==
    IF rooms = <<>> THEN [byRoom |-> table, byRoomCached |-> cached, threw |-> FALSE]
    ELSE LET roomId == Head(rooms).roomId
             replaced == IF roomId \in DOMAIN table THEN table
                         ELSE Put(table, roomId, ParseRoom(Head(rooms)))
         IN  IF ~replaced[roomId].hasMessages
             THEN [byRoom |-> replaced, byRoomCached |-> cached, threw |-> TRUE]
             ELSE LoadRoomsKeepLive(Tail(rooms), replaced,
                            Put(cached, roomId, CalculateRoom(roomId, replaced[roomId])))

(* load without the call of calculateRoom *)
RECURSIVE LoadRoomsWithoutView(_, _, _)
LoadRoomsWithoutView(rooms, table, cached) ==
    IF rooms = <<>> THEN [byRoom |-> table, byRoomCached |-> cached, threw |-> FALSE]
    ELSE LET roomId == Head(rooms).roomId
             replaced == Put(table, roomId, ParseRoom(Head(rooms)))
         IN  LoadRoomsWithoutView(Tail(rooms), replaced, cached)

RECURSIVE LoadRooms(_, _, _)
LoadRooms(rooms, table, cached) ==
    IF rooms = <<>> THEN [byRoom |-> table, byRoomCached |-> cached, threw |-> FALSE]
    ELSE LET roomId == Head(rooms).roomId
             replaced == Put(table, roomId, ParseRoom(Head(rooms)))
         IN  IF ~replaced[roomId].hasMessages
             THEN [byRoom |-> replaced, byRoomCached |-> cached, threw |-> TRUE]
             ELSE LoadRooms(Tail(rooms), replaced,
                            Put(cached, roomId, CalculateRoom(roomId, replaced[roomId])))

(* the keys of byRoom after the loop over json.rooms: a room that is new   *)
(* to the table is entered last, in the order of the file                  *)
RECURSIVE LoadKeys(_, _)
LoadKeys(rooms, keys) ==
    IF rooms = <<>> THEN keys
    ELSE LET roomId == Head(rooms).roomId
             entered == IF \E i \in 1..Len(keys) : keys[i] = roomId
                        THEN keys ELSE Append(keys, roomId)
         IN  IF ~Head(rooms).hasMessages THEN entered
             ELSE LoadKeys(Tail(rooms), entered)

(* one turn of the loop: the room is replaced and its view computed, and   *)
(* the await of calculateRoom hands the turn back.  seq counts the rooms   *)
(* of the file that are done.                                              *)
LoadApply ==
    /\ tasks[LoadTask].op = "load"
    /\ tasks[LoadTask].pc = "locked"
    /\ Runs(LoadTask)
    /\ tasks[LoadTask].seq < Len(tasks[LoadTask].json.rooms)
    /\ LET rooms == tasks[LoadTask].json.rooms
           done == tasks[LoadTask].seq
           loaded == LoadRooms(<<rooms[done + 1]>>, byRoom, byRoomCached)
       IN  /\ byRoom' = loaded.byRoom
           /\ byRoomKeys' = LoadKeys(<<rooms[done + 1]>>, byRoomKeys)
           /\ byRoomCached' = loaded.byRoomCached
           /\ tasks' = MarkInterfered(
                  [tasks EXCEPT ![LoadTask].pc = IF loaded.threw THEN "throwing"
                                                ELSE IF done + 1 = Len(rooms) THEN "loaded"
                                                ELSE "locked",
                                ![LoadTask].seq = done + 1,
                                ![LoadTask].before = IF done = 0 THEN byRoom ELSE @],
                  LoadTask, loaded.byRoom # byRoom)
    /\ jobs' = Append(Tail(jobs), LoadTask)
    /\ UNCHANGED <<lock, tmpFile, canonFile, ops, restarts, served, delivered, domain, elsewhere>>

(* the loop has ended, or the await of a rejected calculateRoom throws:    *)
(* finally releases the lock                                               *)
LoadRelease ==
    /\ tasks[LoadTask].op = "load"
    /\ \/ tasks[LoadTask].pc \in {"loaded", "throwing"}
       \/ tasks[LoadTask].pc = "locked" /\ tasks[LoadTask].json.rooms = <<>>
    /\ Runs(LoadTask)
    /\ lock' = Release(lock)
    /\ tasks' = [Resume(tasks, lock) EXCEPT
                    ![LoadTask].pc = IF @ = "throwing" THEN "raised" ELSE "done",
                    ![LoadTask].json = NoDoc,
                    ![LoadTask].src = NoTable,
                    ![LoadTask].before = NoTable,
                    ![LoadTask].seq = 0]
    /\ jobs' = Tail(jobs) \o Woken(lock)
    /\ UNCHANGED <<byRoom, byRoomKeys, byRoomCached, tmpFile, canonFile, ops, restarts, served, delivered, domain, elsewhere>>

(***************************************************************************)
(* The process dies and a new engine is constructed: memory is lost, the   *)
(* files stay as they are.  A crash while a continuation is pending leaves *)
(* the files of the state before it, so it is taken from that state.       *)
(***************************************************************************)
Restart ==
    /\ restarts < MaxRestarts
    /\ ~MicrotaskPending
    /\ restarts' = restarts + 1
    /\ byRoom' = NoTable
    /\ byRoomKeys' = Entered(byRoomKeys, byRoom')
    /\ byRoomCached' = NoTable
    /\ lock' = FreeLock
    /\ tasks' = [t \in Tasks |-> IdleTask]
    /\ served' = NotServed
    /\ delivered' = NoLog
    /\ domain' = Undefined
    /\ jobs' = <<>>
    /\ UNCHANGED elsewhere
    /\ UNCHANGED <<tmpFile, canonFile, ops>>

(***************************************************************************)
(* The engine once load() has completed and before the client starts to    *)
(* deliver events, as the constructor expects it to be used.  The views    *)
(* carry the domain load() knew (known): getUserId may have answered       *)
(* before load calculated them, after it, or not yet.                      *)
(***************************************************************************)
LoadedFrom(file) ==
    IF LoadOutcome(file) = "acquire"
    THEN LoadRooms(file.doc.rooms, NoTable, NoTable)
    ELSE [byRoom |-> NoTable, byRoomCached |-> NoTable, threw |-> FALSE]

InitLoaded ==
    \E file \in SavedFiles, known \in {Undefined, Some(Domain)} :
        /\ ScoreboardAlone
        /\ domain \in {known, Some(Domain)}
        /\ canonFile = file
        /\ byRoom = LoadedFrom(file).byRoom
        /\ LET views == LoadedFrom(file).byRoomCached
               Linked(entry) == [entry EXCEPT !.permalink.via = <<known>>]
           IN  byRoomCached =
                   [r \in DOMAIN views |->
                       [views[r] EXCEPT !.ordered =
                           [i \in DOMAIN views[r].ordered |-> Linked(views[r].ordered[i])]]]
        /\ lock = FreeLock
        /\ tasks = [t \in Tasks |-> IF t = LoadTask
                                    THEN [IdleTask EXCEPT !.op = "load", !.pc = "done"]
                                    ELSE IdleTask]
        /\ tmpFile = AbsentFile
        /\ ops = 0
        /\ restarts = 0
        /\ served = NotServed
        /\ byRoomKeys = IF LoadOutcome(file) = "acquire"
                        THEN LoadKeys(file.doc.rooms, <<>>) ELSE <<>>
        /\ jobs = <<>>

InitReplay ==
    /\ InitLoaded
    /\ delivered = [on |-> TRUE,
                    base |-> [byRoom |-> byRoom, byRoomCached |-> byRoomCached],
                    events |-> <<>>]

(***************************************************************************)
(* The events handled one after the other: each handler runs to its end    *)
(* before the next event is delivered.  s is the room table and the views; *)
(* default is what getEvent answers where the run under comparison never   *)
(* asked.  In a room without a messages list scoreboard.messages.find      *)
(* throws: the operation changes nothing and the handler is rejected.      *)
(***************************************************************************)
CompletedAddReaction(s, e, default) ==
    LET created == IF e.room \in DOMAIN s.byRoom THEN s.byRoom
                   ELSE Put(s.byRoom, e.room, EmptyRoom)
        idx == FindMessage(created[e.room].messages, e.target)
        pushed == [created EXCEPT ![e.room].messages[idx] = PushVote(@, e.isUpvote, e.id)]
        targetEv == IF e.answer = "unasked" THEN default ELSE e.answer
        appended == [created EXCEPT ![e.room].messages =
                                        Append(@, FetchedMessage(e.target, e.isUpvote, e.id))]
    IN  IF ~IsAuditorium(e.room) THEN s
        ELSE IF ~created[e.room].hasMessages THEN s
        ELSE IF idx > 0
        THEN [byRoom |-> pushed,
              byRoomCached |-> Put(s.byRoomCached, e.room, CalculateRoom(e.room, pushed[e.room]))]
        ELSE IF targetEv # "text"
        THEN [byRoom |-> created, byRoomCached |-> s.byRoomCached]
        ELSE [byRoom |-> appended,
              byRoomCached |-> Put(s.byRoomCached, e.room, CalculateRoom(e.room, appended[e.room]))]

CompletedRemoveReaction(s, e) ==
    LET messages == s.byRoom[e.room].messages
        up == FindUpvoteMessage(messages, e.id)
        down == FindDownvoteMessage(messages, e.id)
        upRemoved == IF up > 0
                     THEN [messages EXCEPT ![up].activeUpvoteIds = RemoveVote(@, e.id)]
                     ELSE messages
        removed == IF down > 0
                   THEN [upRemoved EXCEPT ![down].activeDownvoteIds = RemoveVote(@, e.id)]
                   ELSE upRemoved
        table == [s.byRoom EXCEPT ![e.room].messages = removed]
    IN  IF ~IsAuditorium(e.room) \/ e.room \notin DOMAIN s.byRoom THEN s
        ELSE IF ~s.byRoom[e.room].hasMessages THEN s
        ELSE IF up = 0 /\ down = 0 THEN s
        ELSE [byRoom |-> table,
              byRoomCached |-> Put(s.byRoomCached, e.room, CalculateRoom(e.room, table[e.room]))]

CompletedRemoveMessage(s, e) ==
    LET messages == s.byRoom[e.room].messages
        idx == FindMessage(messages, e.id)
        table == [s.byRoom EXCEPT ![e.room].messages = Splice(messages, idx)]
    IN  IF ~IsAuditorium(e.room) \/ e.room \notin DOMAIN s.byRoom THEN s
        ELSE IF ~s.byRoom[e.room].hasMessages THEN s
        ELSE IF idx = 0 THEN s
        ELSE [byRoom |-> table,
              byRoomCached |-> Put(s.byRoomCached, e.room, CalculateRoom(e.room, table[e.room]))]

(* the room.event handler, run to its end: tryRemoveMessage is called     *)
(* when tryRemoveReaction has not thrown                                   *)
CompletedEvent(s, e, default) ==
    IF e.kind = "reaction" THEN CompletedAddReaction(s, e, default)
    ELSE IF /\ IsAuditorium(e.room)
            /\ e.room \in DOMAIN s.byRoom
            /\ ~s.byRoom[e.room].hasMessages
         THEN s
         ELSE CompletedRemoveMessage(CompletedRemoveReaction(s, e), e)

RECURSIVE Replay(_, _, _)
Replay(events, s, default) ==
    IF events = <<>> THEN s
    ELSE Replay(Tail(events), CompletedEvent(s, Head(events), default), default)

Next ==
    \/ \E roomId \in AuditoriumRooms : GetScoreboardCalled(roomId)
    \/ \E t \in Callers, roomId \in ResetRooms : ResetScoreboard(t, roomId)
    \/ \E t \in Callers, roomId \in AuditoriumRooms, qa \in Times : ShowQACountdown(t, roomId, qa)
    \/ \E t \in Callers, event \in ReactionEvents : RoomEventReaction(t, event)
    \/ \E t \in Callers, event \in RedactionEvents : RoomEventRedaction(t, event)
    \/ \E t \in Callers : ResetScoreboardBody(t)
    \/ \E t \in Callers : ShowQACountdownBody(t)
    \/ \E t \in Callers : TryAddReactionBody(t)
    \/ \E t \in Callers, targetEv \in GetEventOutcomes : TryAddReactionFetched(t, targetEv)
    \/ \E t \in Callers : GetUserProfileAnswered(t)
    \/ \E t \in Callers : TryRemoveReactionBody(t)
    \/ \E t \in Callers : TryRemoveMessageBody(t)
    \/ \E t \in Callers : ReleaseThenSave(t)
    \/ \E t \in Callers : SaveBegin(t)
    \/ \E t \in Callers : SaveWritten(t)
    \/ \E t \in Callers : SaveRenamed(t)
    \/ \E t \in Callers : SaveFailed(t)
    \/ \E t \in Callers : SaveReturned(t)
    \/ \E t \in Callers : HandlerReturned(t)
    \/ \E t \in Callers : HandlerRejected(t)
    \/ LoadRead
    \/ LoadApply
    \/ LoadRelease
    \/ Restart
    \/ GetUserIdAnswered

Spec == Init /\ [][Next]_vars

SpecAnyFile == InitAnyFile /\ [][Next]_vars

SpecRedelivered == InitRedelivered /\ [][Next]_vars

SpecReplay == InitReplay /\ [][Next]_vars

(***************************************************************************)
(* A run in which every write and rename of save succeeds and the process  *)
(* is not restarted, started after load() has completed and getUserId has  *)
(* answered, in either order.  The event loop of the process keeps         *)
(* running: while a continuation of some operation can run (a holder of    *)
(* the lock going on, a waiter being resumed, a request or a file          *)
(* operation completing), one of them does.                                *)
(***************************************************************************)
InitLive == InitLoaded /\ domain = Some(Domain) /\ delivered = NoLog

Continues ==
    \/ \E t \in Callers : ResetScoreboardBody(t)
    \/ \E t \in Callers : ShowQACountdownBody(t)
    \/ \E t \in Callers : TryAddReactionBody(t)
    \/ \E t \in Callers, targetEv \in GetEventOutcomes : TryAddReactionFetched(t, targetEv)
    \/ \E t \in Callers : GetUserProfileAnswered(t)
    \/ \E t \in Callers : TryRemoveReactionBody(t)
    \/ \E t \in Callers : TryRemoveMessageBody(t)
    \/ \E t \in Callers : ReleaseThenSave(t)
    \/ \E t \in Callers : SaveBegin(t)
    \/ \E t \in Callers : SaveWritten(t)
    \/ \E t \in Callers : SaveRenamed(t)
    \/ \E t \in Callers : SaveReturned(t)
    \/ \E t \in Callers : HandlerReturned(t)
    \/ \E t \in Callers : HandlerRejected(t)

NextLive ==
    \/ \E roomId \in AuditoriumRooms : GetScoreboardCalled(roomId)
    \/ \E t \in Callers, roomId \in ResetRooms : ResetScoreboard(t, roomId)
    \/ \E t \in Callers, roomId \in AuditoriumRooms, qa \in Times : ShowQACountdown(t, roomId, qa)
    \/ \E t \in Callers, event \in ReactionEvents : RoomEventReaction(t, event)
    \/ \E t \in Callers, event \in RedactionEvents : RoomEventRedaction(t, event)
    \/ Continues

SpecLive == InitLive /\ [][NextLive]_vars /\ WF_vars(Continues)

(***************************************************************************)
(* room.event with type m.reaction and any content.  The content of an     *)
(* event is what the sender put there: the relation may be missing, of     *)
(* another type, carry another key, or have no event_id or an empty one.   *)
(* A key is a thumbs-up or thumbs-down emoji, written with or without the  *)
(* variation selector, or another emoji.                                   *)
(***************************************************************************)
AnyReactionEvents ==
    { [room |-> "r1", event_id |-> "q1", hasRelation |-> FALSE,
       rel_type |-> "", key |-> "", target |-> Undefined],
      [room |-> "r1", event_id |-> "q2", hasRelation |-> TRUE,
       rel_type |-> "m.reference", key |-> "+1", target |-> Some("m1")],
      [room |-> "r1", event_id |-> "q3", hasRelation |-> TRUE,
       rel_type |-> "m.annotation", key |-> "heart", target |-> Some("m1")],
      [room |-> "r1", event_id |-> "q4", hasRelation |-> TRUE,
       rel_type |-> "m.annotation", key |-> "+1", target |-> Undefined],
      [room |-> "r1", event_id |-> "q5", hasRelation |-> TRUE,
       rel_type |-> "m.annotation", key |-> "-1", target |-> Some("")],
      [room |-> "r1", event_id |-> "q6", hasRelation |-> TRUE,
       rel_type |-> "m.annotation", key |-> "+1 vs16", target |-> Some("m1")] }

(* isEmojiVariant(expected, value): equal up to the variation selector *)
WithoutVariationSelector(key) ==
    CASE key = "+1 vs16" -> "+1"
      [] key = "-1 vs16" -> "-1"
      [] OTHER -> key

IsEmojiVariant(expected, value) ==
    WithoutVariationSelector(expected) = WithoutVariationSelector(value)

(* typeof (relation['event_id']) === 'string' *)
IsString(v) == v # Undefined

(* the checks of tryAddReaction between the room check and the lock *)
PassesChecks(event) ==
    /\ event.hasRelation
    /\ event.rel_type = "m.annotation"
    /\ (IsEmojiVariant("+1", event.key) \/ IsEmojiVariant("-1", event.key))
    /\ IsString(event.target)

RoomEventAnyReaction(t, event) ==
    IF IsAuditorium(event.room) /\ PassesChecks(event)
    THEN RoomEventReaction(t, [room |-> event.room, event_id |-> event.event_id,
                               target |-> event.target[1],
                               isUpvote |-> IsEmojiVariant("+1", event.key)])
    ELSE \* return before the lock
         /\ FreeSlot(t)
         /\ tasks' = [tasks EXCEPT ![t] =
                [IdleTask EXCEPT !.op = "tryAddReaction", !.room = event.room,
                                 !.id = event.event_id, !.pc = "returned"]]
         /\ ops' = ops + 1
         /\ jobs' = Append(jobs, t)
         /\ UNCHANGED <<byRoom, byRoomKeys, byRoomCached, lock, tmpFile, canonFile, restarts,
                        served, delivered, domain, elsewhere>>

NextAnyReaction ==
    \/ Next
    \/ \E t \in Callers, event \in AnyReactionEvents : RoomEventAnyReaction(t, event)

SpecAnyReaction == Init /\ [][NextAnyReaction]_vars

(***************************************************************************)
(* A run of one process, load included, in which requests and disk writes  *)
(* may fail, observed while getUserId has not answered yet (the answer     *)
(* touches the domain of the permalinks and nothing of the lock).  The     *)
(* event loop keeps running: while a continuation can run (of an           *)
(* operation, of load, or the failure of a write), one does.               *)
(***************************************************************************)
Proceeds ==
    \/ Continues
    \/ \E t \in Callers : SaveFailed(t)
    \/ LoadRead
    \/ LoadApply
    \/ LoadRelease

(* the events and calls of these runs: one reaction on a message of r1,    *)
(* its redaction and the one of the message, one reaction in a room that   *)
(* is no auditorium, the reset and the countdown of r1                     *)
FairReactionEvents == {event \in ReactionEvents : event.event_id \in {"u1", "x1"}}
FairRedactionEvents == {event \in RedactionEvents : event.redacts \in {"u1", "m1"}}

NextFair ==
    \/ \E t \in Callers, roomId \in ResetRooms : ResetScoreboard(t, roomId)
    \/ \E t \in Callers, roomId \in ResetRooms, qa \in Times : ShowQACountdown(t, roomId, qa)
    \/ \E t \in Callers, event \in FairReactionEvents : RoomEventReaction(t, event)
    \/ \E t \in Callers, event \in FairRedactionEvents : RoomEventRedaction(t, event)
    \/ Proceeds

SpecFair == Init /\ [][NextFair]_vars /\ WF_vars(Proceeds)

(***************************************************************************)
(* CheckInMap.  The constructor registers the room.event listener and      *)
(* calls load() without awaiting it: load runs up to its await of the      *)
(* lock, which is free, takes it and asks for the file.  The Scoreboard    *)
(* takes no step in these runs.                                            *)
(***************************************************************************)
scoreboardVars ==
    <<byRoom, byRoomCached, lock, tasks, tmpFile, canonFile, ops, restarts, served, delivered,
      domain, byRoomKeys, jobs>>

ScoreboardUnused == ScoreboardConstructed /\ canonFile = AbsentFile

LoadedCheckins == [u \in {"@a"} |-> ICheckin(StartTime + CHECKIN_TIME \div 2)]
ExpectedCheckins == [u \in {"@a"} |-> ICheckin(0)]

CheckinsFiles ==
    { NoCheckinsFile, EmptyCheckinsFile, CutCheckinsFile,
      CheckinsFileOf(NoCheckins), CheckinsFileOf(ExpectedCheckins),
      CheckinsFileOf(LoadedCheckins) }

CheckInMapConstructed ==
    /\ checkedIn = NoCheckins
    /\ checkinLock = AcquireAsync(FreeLock, LoadTask)
    /\ checkinTasks = [t \in Tasks |-> IF t = LoadTask
                                       THEN [CheckinIdle EXCEPT !.op = "load", !.pc = "reading"]
                                       ELSE CheckinIdle]
    /\ now = StartTime
    /\ checkinCalls = 0

InitCheckIn ==
    /\ ScoreboardUnused
    /\ IrcUnused
    /\ CheckInMapConstructed
    /\ checkinsFile \in CheckinsFiles

(* fs.readFile and JSON.parse(str || "{}"): the map read, or a throw *)
ReadCheckins(file) ==
    CASE file.state = "complete" -> [threw |-> FALSE, value |-> file.content]
      [] file.state = "empty" -> [threw |-> FALSE, value |-> NoCheckins]
      [] OTHER -> [threw |-> TRUE, value |-> NoCheckins]

(* release(): the first waiter continues in its section *)
CheckinResume(ts, l) ==
    IF l.waiting = <<>> THEN ts
    ELSE [ts EXCEPT ![Head(l.waiting)].pc = "locked"]

(* load(), from the answer of readFile to the release in finally *)
CheckinLoad ==
    /\ checkinTasks[LoadTask].pc = "reading"
    /\ LET read == ReadCheckins(checkinsFile)
           ts == [checkinTasks EXCEPT ![LoadTask].pc = "done"]
       IN  /\ checkedIn' = IF read.threw THEN checkedIn ELSE read.value
           /\ checkinTasks' = CheckinResume(ts, checkinLock)
           /\ checkinLock' = Release(checkinLock)
    /\ UNCHANGED <<checkinsFile, now, checkinCalls, scoreboardVars, ircVars>>

CheckinFreeSlot(t) ==
    /\ t \in Callers
    /\ checkinTasks[t].op = "idle"
    /\ \A u \in Callers : u < t => checkinTasks[u].op # "idle"
    /\ checkinCalls < MaxCheckinCalls

CheckinStarted(t, op, userIds) ==
    /\ checkinTasks' = [checkinTasks EXCEPT ![t] =
            [CheckinIdle EXCEPT !.op = op, !.userIds = userIds,
                                !.pc = AfterAcquire(checkinLock, "locked", "waiting")]]
    /\ checkinLock' = AcquireAsync(checkinLock, t)

EventTypes == {"m.room.message", "m.reaction", "m.room.member"}

(* the room.event listener, up to its await of the lock, entered whether   *)
(* or not the sender has an entry                                          *)
CheckinRoomEventUnchecked(t, sender, type) ==
    /\ CheckinFreeSlot(t)
    /\ checkinCalls' = checkinCalls + 1
    /\ IF type \in {"m.room.message", "m.reaction"}
       THEN CheckinStarted(t, "event", <<sender>>)
       ELSE UNCHANGED <<checkinTasks, checkinLock>>
    /\ UNCHANGED <<checkedIn, checkinsFile, now, scoreboardVars, ircVars>>

(* the room.event listener, up to its await of the lock *)
CheckinRoomEvent(t, sender, type) ==
    /\ CheckinFreeSlot(t)
    /\ checkinCalls' = checkinCalls + 1
    /\ IF sender \in DOMAIN checkedIn /\ type \in {"m.room.message", "m.reaction"}
       THEN CheckinStarted(t, "event", <<sender>>)
       ELSE UNCHANGED <<checkinTasks, checkinLock>>
    /\ UNCHANGED <<checkedIn, checkinsFile, now, scoreboardVars, ircVars>>

UserIdLists == {<<>>, <<"@a">>, <<"@b">>, <<"@a", "@b">>}

ExpectCheckinFrom(t, userIds) ==
    /\ CheckinFreeSlot(t)
    /\ checkinCalls' = checkinCalls + 1
    /\ CheckinStarted(t, "expectCheckinFrom", userIds)
    /\ UNCHANGED <<checkedIn, checkinsFile, now, scoreboardVars, ircVars>>

ExtendCheckin(t, userId) ==
    /\ CheckinFreeSlot(t)
    /\ checkinCalls' = checkinCalls + 1
    /\ CheckinStarted(t, "extendCheckin", <<userId>>)
    /\ UNCHANGED <<checkedIn, checkinsFile, now, scoreboardVars, ircVars>>

(* the loop of expectCheckinFrom *)
RECURSIVE Expected(_, _)
Expected(table, userIds) ==
    IF userIds = <<>> THEN table
    ELSE LET userId == Head(userIds)
         IN  IF userId \in DOMAIN table
             THEN Expected(table, Tail(userIds))
             ELSE Expected(Put(table, userId, ICheckin(0)), Tail(userIds))

(* the section of the listener: the entry is written and persist() called *)
CheckinEventBody(t) ==
    /\ checkinTasks[t].op = "event"
    /\ checkinTasks[t].pc = "locked"
    /\ checkedIn' = Put(checkedIn, checkinTasks[t].userIds[1], ICheckin(now + CHECKIN_TIME))
    /\ checkinTasks' = [checkinTasks EXCEPT ![t].pc = "persisting", ![t].text = checkedIn']
    /\ UNCHANGED <<checkinLock, checkinsFile, now, checkinCalls, scoreboardVars, ircVars>>

(* the section of expectCheckinFrom, up to the await in persist() *)
ExpectCheckinFromBody(t) ==
    /\ checkinTasks[t].op = "expectCheckinFrom"
    /\ checkinTasks[t].pc = "locked"
    /\ checkedIn' = Expected(checkedIn, checkinTasks[t].userIds)
    /\ checkinTasks' = [checkinTasks EXCEPT ![t].pc = "persisting", ![t].text = checkedIn']
    /\ UNCHANGED <<checkinLock, checkinsFile, now, checkinCalls, scoreboardVars, ircVars>>

(* the section of extendCheckin: it returns, through finally, for a user   *)
(* without an entry                                                        *)
ExtendCheckinBody(t) ==
    /\ checkinTasks[t].op = "extendCheckin"
    /\ checkinTasks[t].pc = "locked"
    /\ LET userId == checkinTasks[t].userIds[1]
       IN  IF userId \notin DOMAIN checkedIn
           THEN /\ checkinTasks' = CheckinResume([checkinTasks EXCEPT ![t] = CheckinIdle], checkinLock)
                /\ checkinLock' = Release(checkinLock)
                /\ UNCHANGED checkedIn
           ELSE /\ checkedIn' = Put(checkedIn, userId, ICheckin(now + CHECKIN_TIME))
                /\ checkinTasks' = [checkinTasks EXCEPT ![t].pc = "persisting", ![t].text = checkedIn']
                /\ UNCHANGED checkinLock
    /\ UNCHANGED <<checkinsFile, now, checkinCalls, scoreboardVars, ircVars>>

(* fs.writeFile has written the text; finally releases the lock *)
CheckinPersisted(t) ==
    /\ t \in Callers
    /\ checkinTasks[t].pc = "persisting"
    /\ checkinsFile' = CheckinsFileOf(checkinTasks[t].text)
    /\ checkinTasks' = CheckinResume([checkinTasks EXCEPT ![t] = CheckinIdle], checkinLock)
    /\ checkinLock' = Release(checkinLock)
    /\ UNCHANGED <<checkedIn, now, checkinCalls, scoreboardVars, ircVars>>

(* fs.writeFile rejects, with the file untouched, emptied (opened and      *)
(* truncated, nothing written) or cut short; finally releases the lock and *)
(* the error leaves the operation                                          *)
CheckinPersistFailed(t) ==
    /\ t \in Callers
    /\ checkinTasks[t].pc = "persisting"
    /\ checkinsFile' \in {checkinsFile, EmptyCheckinsFile, CutCheckinsFile}
    /\ checkinTasks' = CheckinResume([checkinTasks EXCEPT ![t] =
                            [CheckinIdle EXCEPT !.op = checkinTasks[t].op, !.pc = "raised"]],
                                     checkinLock)
    /\ checkinLock' = Release(checkinLock)
    /\ UNCHANGED <<checkedIn, now, checkinCalls, scoreboardVars, ircVars>>

(* the promise of the operation is rejected: the caller of                 *)
(* expectCheckinFrom or extendCheckin gets the error of writeFile; the     *)
(* promise of the room.event listener has no one to handle it              *)
CheckinRejected(t) ==
    /\ t \in Callers
    /\ checkinTasks[t].pc = "raised"
    /\ checkinTasks' = [checkinTasks EXCEPT ![t] = CheckinIdle]
    /\ UNCHANGED <<checkedIn, checkinLock, checkinsFile, now, checkinCalls, scoreboardVars, ircVars>>

(* time passes *)
Tick ==
    /\ now + CHECKIN_TIME \div 2 \in ClockTimes
    /\ now' = now + CHECKIN_TIME \div 2
    /\ UNCHANGED <<checkedIn, checkinLock, checkinTasks, checkinsFile, checkinCalls, scoreboardVars, ircVars>>

(* isCheckedIn(userId) *)
IsCheckedIn(userId) ==
    /\ userId \in DOMAIN checkedIn
    /\ checkedIn[userId].expires >= now

NextCheckIn ==
    \/ CheckinLoad
    \/ \E t \in Callers, sender \in Users, type \in EventTypes : CheckinRoomEvent(t, sender, type)
    \/ \E t \in Callers, userIds \in UserIdLists : ExpectCheckinFrom(t, userIds)
    \/ \E t \in Callers, userId \in Users : ExtendCheckin(t, userId)
    \/ \E t \in Callers : CheckinEventBody(t)
    \/ \E t \in Callers : ExpectCheckinFromBody(t)
    \/ \E t \in Callers : ExtendCheckinBody(t)
    \/ \E t \in Callers : CheckinPersisted(t)
    \/ \E t \in Callers : CheckinPersistFailed(t)
    \/ \E t \in Callers : CheckinRejected(t)
    \/ Tick

SpecCheckIn == InitCheckIn /\ [][NextCheckIn]_vars

(***************************************************************************)
(* IRCBridge and IrcPlumbCommand.  One step is one turn of the event loop: *)
(* the answer of a request, an event or a timer, together with the         *)
(* continuations it resumes.  A stored room is known by its room id and by *)
(* the name deriveChannelName (for an interest room: deriveChannelNameSI,  *)
(* after makeLocalpart) gets for it, which may be empty.  The Scoreboard   *)
(* and the CheckInMap take no step in these runs.                          *)
(***************************************************************************)
notIrc == <<scoreboardVars, checkInVars>>

BridgeRoom == "!bridge"
OtherRoom == "!other"

RequestEventId(c) == <<"$request", c>>

(* result.content.body of a reply of the bridge *)
Bodies == {"Room plumbed.", "error"}

(* resolve(value) and reject(error) settle a pending promise and do        *)
(* nothing to a settled one                                                *)
Resolve(command, value, body) ==
    IF command.promise = "pending"
    THEN [command EXCEPT !.promise = "resolved", !.value = value, !.body = body,
                         !.settles = @ + 1]
    ELSE command

Reject(command) ==
    IF command.promise \in {"none", "pending"}
    THEN [command EXCEPT !.promise = "rejected", !.settles = @ + 1]
    ELSE command

(* clearTimeout(timeout) *)
ClearTimeout(command) ==
    IF command.timer = "armed" THEN [command EXCEPT !.timer = "cleared"] ELSE command

(* the call of executeCommand that comes next is the call c *)
NextCommand(c) ==
    /\ c \in Commands
    /\ commands[c].pc = "idle"
    /\ \A d \in Commands : d < c => commands[d].pc # "idle"

(* executeCommand(command), up to the await of sendText; without a         *)
(* botRoomId it throws                                                     *)
Executed(command, roomId) ==
    IF roomId = Undefined
    THEN Reject([command EXCEPT !.pc = "done"])
    ELSE [command EXCEPT !.pc = "sending"]

(* the rooms the loop in progress goes through *)
PlumbList(phase) ==
    IF phase = "auditoriums" THEN conference.storedAuditoriums
                             ELSE conference.storedInterestRooms

(* plumbAll has returned: run sends its notice and returns *)
PlumbAllReturned(run) ==
    [run EXCEPT !.pc = "done", !.notice = "Rooms bridged to IRC"]

(* plumbAll has thrown: the catch of run sends its notice *)
PlumbAllThrew(run) ==
    [run EXCEPT !.pc = "done", !.notice = "Failed to bridge all rooms, see logs"]

(* the head of a for loop: the name of the room at place i of the list is  *)
(* asked for; at the end of the auditoriums the interest rooms begin, at   *)
(* their end plumbAll returns                                              *)
PlumbLoop(run, phase, i) ==
    IF phase = "auditoriums" /\ i <= Len(conference.storedAuditoriums)
    THEN [run EXCEPT !.pc = "derive", !.phase = "auditoriums", !.i = i]
    ELSE LET j == IF phase = "auditoriums" THEN 1 ELSE i
         IN  IF j <= Len(conference.storedInterestRooms)
             THEN [run EXCEPT !.pc = "derive", !.phase = "interests", !.i = j]
             ELSE PlumbAllReturned([run EXCEPT !.phase = "interests", !.i = j])

(* plumbChannelToRoom has thrown: the catch of the loop body calls         *)
(* logMessage and awaits it                                                *)
PlumbCaught(run) == [run EXCEPT !.pc = "log"]

(* the continuation of plumbChannelToRoom after `await executeCommand`,    *)
(* run in the turn that settles the promise: the bridge is made operator   *)
(* of the channel when the reply says 'Room plumbed.', else it throws      *)
PlumbResumed(run, cmds) ==
    IF run.pc # "command" THEN run
    ELSE IF cmds[run.command].promise = "resolved"
         THEN IF cmds[run.command].body = "Room plumbed."
              THEN [run EXCEPT !.pc = "mode"]
              ELSE PlumbCaught(run)
         ELSE IF cmds[run.command].promise = "rejected"
              THEN PlumbCaught(run)
              ELSE run

(* the continuation of setup after `await executeCommand("bridgeversion")` *)
SetupResumed(run, cmds) ==
    IF run.pc # "command" THEN run
    ELSE IF cmds[run.command].promise = "resolved" THEN [run EXCEPT !.pc = "done"]
         ELSE IF cmds[run.command].promise = "rejected" THEN [run EXCEPT !.pc = "failed"]
              ELSE run

(* new Client(...) once setup has gone past its command *)
ClientAfter(run, resumed) ==
    IF run.pc = "command" /\ resumed.pc = "done" THEN "made" ELSE ircClient

(* the promises of the commands have changed to cmds: whoever awaits one   *)
(* that has settled goes on                                                *)
Settled(cmds) ==
    /\ plumbRun' = PlumbResumed(plumbRun, cmds)
    /\ setupRun' = SetupResumed(setupRun, cmds)
    /\ ircClient' = ClientAfter(setupRun, SetupResumed(setupRun, cmds))

InitBridge ==
    /\ ScoreboardUnused
    /\ CheckInMapUnused
    /\ IrcUnused

(***************************************************************************)
(* IRCBridge.setup.                                                        *)
(***************************************************************************)
(* setup(), up to the await of getSafeAccountData *)
Setup ==
    /\ setupRun.pc = "idle"
    /\ setupRun' = [setupRun EXCEPT !.pc = "accountData"]
    /\ UNCHANGED <<conference, plumbRun, botRoomId, ircClient, listeners, commands, roomMessages,
                   notIrc>>

(* botRoomId is set and executeCommand("bridgeversion") called *)
SetupCommand(c) ==
    /\ botRoomId' = Some(BridgeRoom)
    /\ commands' = [commands EXCEPT ![c] = Executed(@, Some(BridgeRoom))]
    /\ setupRun' = [setupRun EXCEPT !.pc = "command", !.command = c]

(* getSafeAccountData answers: with the room of an earlier run, with       *)
(* nothing, so that a room is made, or it throws                           *)
SetupAccountData ==
    /\ setupRun.pc = "accountData"
    /\ \E answer \in {"data", "none", "throw"} :
           CASE answer = "data" -> \E c \in Commands : NextCommand(c) /\ SetupCommand(c)
             [] answer = "none" ->
                    /\ setupRun' = [setupRun EXCEPT !.pc = "createRoom"]
                    /\ UNCHANGED <<botRoomId, commands>>
             [] OTHER ->
                    /\ setupRun' = [setupRun EXCEPT !.pc = "failed"]
                    /\ UNCHANGED <<botRoomId, commands>>
    /\ UNCHANGED <<conference, plumbRun, ircClient, listeners, roomMessages, notIrc>>

(* createRoom answers or throws *)
SetupRoomCreated ==
    /\ setupRun.pc = "createRoom"
    /\ \E answer \in {"created", "throw"} :
           IF answer = "created"
           THEN \E c \in Commands : NextCommand(c) /\ SetupCommand(c)
           ELSE /\ setupRun' = [setupRun EXCEPT !.pc = "failed"]
                /\ UNCHANGED <<botRoomId, commands>>
    /\ UNCHANGED <<conference, plumbRun, ircClient, listeners, roomMessages, notIrc>>

(***************************************************************************)
(* IRCBridge.executeCommand.  Each call sends the command to the bridge    *)
(* room and, once sendText has answered with the id of the request, makes  *)
(* a promise: its executor arms the timeout and registers handlerFn as a   *)
(* room.message listener on the client.  A room.message event is handed    *)
(* to every listener registered at that time.                              *)
(***************************************************************************)
(* executeCommand called from elsewhere in the bot *)
ExecuteCommand(c) ==
    /\ NextCommand(c)
    /\ commands' = [commands EXCEPT ![c] = Executed(@, botRoomId)]
    /\ UNCHANGED <<conference, plumbRun, setupRun, botRoomId, ircClient, listeners, roomMessages,
                   notIrc>>

(* sendText answers: the promise is made, the timeout armed and handlerFn  *)
(* registered; or sendText throws and the call is rejected                 *)
SendTextAnswered(c) ==
    /\ c \in Commands
    /\ commands[c].pc = "sending"
    /\ \E answer \in {"sent", "throw"} :
           IF answer = "throw"
           THEN /\ commands' = [commands EXCEPT ![c] = Reject([@ EXCEPT !.pc = "done"])]
                /\ UNCHANGED listeners
           ELSE /\ commands' = [commands EXCEPT ![c] =
                        [@ EXCEPT !.pc = "returned", !.requestEventId = RequestEventId(c),
                                  !.promise = "pending", !.timer = "armed"]]
                /\ listeners' = listeners \cup {c}
    /\ Settled(commands')
    /\ UNCHANGED <<conference, botRoomId, roomMessages, notIrc>>

(* the events: in the bridge room or in another one, in reply to a request *)
(* or to nothing                                                           *)
InReplyTo == {Undefined} \cup {Some(RequestEventId(c)) : c \in Commands}

(* handlerFn of the command c for the event *)
HandlerFn(c, command, roomId, inReplyTo, eventId, body) ==
    IF Some(roomId) # botRoomId THEN command
    ELSE IF inReplyTo = Some(command.requestEventId)
         THEN ClearTimeout(Resolve(command, eventId, body))
         ELSE command

(* the client emits room.message: every listener registered is called;     *)
(* the replies in the bridge room to a request that has been sent are      *)
(* noted in their order                                                    *)
RoomMessage(roomId, inReplyTo, body) ==
    /\ roomMessages < MaxRoomMessages
    /\ roomMessages' = roomMessages + 1
    /\ LET eventId == <<"$message", roomMessages + 1>>
           Noted(c, command) ==
               IF /\ command.pc \in {"sending", "returned"}
                  /\ Some(roomId) = botRoomId
                  /\ inReplyTo = Some(RequestEventId(c))
               THEN [command EXCEPT !.replies = Append(@, eventId)]
               ELSE command
       IN  commands' = [c \in Commands |->
                IF c \in listeners
                THEN HandlerFn(c, Noted(c, commands[c]), roomId, inReplyTo, eventId, body)
                ELSE Noted(c, commands[c])]
    /\ Settled(commands')
    /\ UNCHANGED <<conference, botRoomId, listeners, notIrc>>

(* COMMAND_TIMEOUT_MS have passed and the timeout was not cleared: the     *)
(* listener is removed and the promise rejected                            *)
CommandTimedOut(c) ==
    /\ c \in Commands
    /\ commands[c].timer = "armed"
    /\ listeners' = listeners \ {c}
    /\ commands' = [commands EXCEPT ![c] = Reject([@ EXCEPT !.timer = "fired"])]
    /\ Settled(commands')
    /\ UNCHANGED <<conference, botRoomId, roomMessages, notIrc>>

NextBridge ==
    \/ Setup
    \/ SetupAccountData
    \/ SetupRoomCreated
    \/ \E c \in Commands : ExecuteCommand(c)
    \/ \E c \in Commands : SendTextAnswered(c)
    \/ \E roomId \in {BridgeRoom, OtherRoom}, inReplyTo \in InReplyTo, body \in Bodies :
           RoomMessage(roomId, inReplyTo, body)
    \/ \E c \in Commands : CommandTimedOut(c)

SpecBridge == InitBridge /\ [][NextBridge]_vars

(***************************************************************************)
(* IrcPlumbCommand.run with the argument 'all'.                            *)
(***************************************************************************)
RoomNames == {"", "main"}

StoredRooms(kind) ==
    UNION { { [k \in 1..n |-> [roomId |-> <<kind, k>>, name |-> names[k]]] :
                names \in [1..n -> RoomNames] } : n \in 0..MaxRooms }

Conferences ==
    { [storedAuditoriums |-> a, storedInterestRooms |-> s] :
        a \in StoredRooms("auditorium"), s \in StoredRooms("interest") }

InitPlumb ==
    /\ ScoreboardUnused
    /\ CheckInMapUnused
    /\ conference \in Conferences
    /\ plumbRun = PlumbIdle
    /\ setupRun = SetupIdle
    /\ botRoomId = Undefined
    /\ ircClient = "none"
    /\ listeners = {}
    /\ commands = [c \in Commands |-> NoCommand]
    /\ roomMessages = 0

notPlumb == <<conference, setupRun, botRoomId, ircClient, listeners, commands, roomMessages, notIrc>>

channelPrefix == "#conf-"

(* `${this.config.channelPrefix}${name}` *)
ChannelName(name) == <<channelPrefix, name>>

(* run(conference, client, roomId, event, ['all']), up to the await of     *)
(* sendReadReceipt                                                         *)
PlumbRunCalled ==
    /\ plumbRun.pc = "idle"
    /\ plumbRun' = [plumbRun EXCEPT !.pc = "receipt"]
    /\ UNCHANGED notPlumb

(* sendReadReceipt answers and plumbAll is entered, or it throws and run   *)
(* is rejected                                                             *)
SendReadReceiptAnswered ==
    /\ plumbRun.pc = "receipt"
    /\ \E receipt \in {"sent", "throw"} :
           plumbRun' = IF receipt = "throw"
                       THEN [plumbRun EXCEPT !.pc = "done"]
                       ELSE PlumbLoop(plumbRun, "auditoriums", 1)
    /\ UNCHANGED notPlumb

(* deriveChannelName / deriveChannelNameSI for the room at hand, called    *)
(* before the try of the loop body: an empty name throws out of plumbAll;  *)
(* with a name plumbChannelToRoom is called and runs up to the await of    *)
(* inviteUser                                                              *)
DeriveChannelName ==
    /\ plumbRun.pc = "derive"
    /\ LET room == PlumbList(plumbRun.phase)[plumbRun.i]
           run == [plumbRun EXCEPT !.derived = Append(@, room.roomId)]
       IN  plumbRun' = IF room.name = ""
                       THEN PlumbAllThrew(run)
                       ELSE [run EXCEPT !.pc = "invite",
                                        !.channelName = ChannelName(room.name),
                                        !.attempted = Append(@, room.roomId)]
    /\ UNCHANGED notPlumb

(* inviteUser answers and this.ircClient.join is called, which throws when *)
(* setup has not made the client; or inviteUser throws                     *)
InviteUserAnswered ==
    /\ plumbRun.pc = "invite"
    /\ \E answer \in {"invited", "throw"} :
           plumbRun' = IF answer = "throw" \/ ircClient = "none"
                       THEN PlumbCaught(plumbRun)
                       ELSE [plumbRun EXCEPT !.pc = "join"]
    /\ UNCHANGED notPlumb

(* join answers and executeCommand(`plumb ...`) is called; or join throws  *)
JoinAnswered ==
    /\ plumbRun.pc = "join"
    /\ \E answer \in {"joined", "throw"} :
           IF answer = "throw"
           THEN /\ plumbRun' = PlumbCaught(plumbRun)
                /\ UNCHANGED commands
           ELSE \E c \in Commands :
                    /\ NextCommand(c)
                    /\ commands' = [commands EXCEPT ![c] = Executed(@, botRoomId)]
                    /\ plumbRun' = PlumbResumed([plumbRun EXCEPT !.pc = "command", !.command = c],
                                                commands')
    /\ UNCHANGED <<conference, setupRun, botRoomId, ircClient, listeners, roomMessages, notIrc>>

(* this.ircClient.send("MODE", channel, "+o", nick) answers or throws:     *)
(* first for the nick of the bridge, then for the one of the moderation    *)
(* bot, after which plumbChannelToRoom returns and the wait begins         *)
ModeAnswered ==
    /\ plumbRun.pc \in {"mode", "moderators"}
    /\ \E answer \in {"sent", "throw"} :
           plumbRun' = IF answer = "throw" THEN PlumbCaught(plumbRun)
                       ELSE IF plumbRun.pc = "mode"
                            THEN [plumbRun EXCEPT !.pc = "moderators"]
                            ELSE [plumbRun EXCEPT !.pc = "wait"]
    /\ UNCHANGED notPlumb

(* PLUMB_WAIT_MS have passed: the loop goes on *)
PlumbSucceeded ==
    /\ plumbRun.pc = "wait"
    /\ plumbRun' = PlumbLoop(plumbRun, plumbRun.phase, plumbRun.i + 1)
    /\ UNCHANGED notPlumb

(* logMessage in the catch answers: the warning is logged and the loop     *)
(* goes on; or logMessage throws, out of plumbAll                          *)
PlumbFailed ==
    /\ plumbRun.pc = "log"
    /\ \E answer \in {"logged", "throw"} :
           LET room == PlumbList(plumbRun.phase)[plumbRun.i]
               run == [plumbRun EXCEPT !.warned = Append(@, room.roomId)]
           IN  plumbRun' = IF answer = "throw"
                           THEN PlumbAllThrew(plumbRun)
                           ELSE PlumbLoop(run, plumbRun.phase, plumbRun.i + 1)
    /\ UNCHANGED notPlumb

NextPlumb ==
    \/ Setup
    \/ SetupAccountData
    \/ SetupRoomCreated
    \/ PlumbRunCalled
    \/ SendReadReceiptAnswered
    \/ DeriveChannelName
    \/ InviteUserAnswered
    \/ JoinAnswered
    \/ ModeAnswered
    \/ PlumbSucceeded
    \/ PlumbFailed
    \/ \E c \in Commands : SendTextAnswered(c)
    \/ \E roomId \in {BridgeRoom, OtherRoom}, inReplyTo \in InReplyTo, body \in Bodies :
           RoomMessage(roomId, inReplyTo, body)
    \/ \E c \in Commands : CommandTimedOut(c)

SpecPlumb == InitPlumb /\ [][NextPlumb]_vars

(***************************************************************************)
(* Properties.                                                             *)
(***************************************************************************)
InSection(t) ==
    tasks[t].pc \in {"locked", "fetching", "profile", "calculated", "save_locked",
                     "writing", "renaming", "loaded", "throwing"}

(* the entry of a view is the display record of the message: its permalink *)
(* names the room and the message, whichever domain it was built with      *)
IsEntryOf(entry, roomId, message) ==
    /\ entry.permalink.roomId = roomId
    /\ entry.permalink.eventId = message.eventId
    /\ entry = [CachedMessageOf(roomId, message) EXCEPT !.permalink = entry.permalink]

(* two rankings list the same entries in the same order; the permalinks   *)
(* may have been built with and without the domain of the bot             *)
SameEntries(a, b) ==
    /\ Len(a) = Len(b)
    /\ \A i \in 1..Len(a) :
          /\ a[i].permalink.roomId = b[i].permalink.roomId
          /\ a[i].permalink.eventId = b[i].permalink.eventId
          /\ a[i] = [b[i] EXCEPT !.permalink = a[i].permalink]

(* the id of the message an entry of a view was projected from *)
EventIdOf(entry) == entry.permalink.eventId

HasVote(table, roomId, id) ==
    /\ roomId \in DOMAIN table
    /\ \E i \in 1..Len(table[roomId].messages) :
          \/ Includes(table[roomId].messages[i].activeUpvoteIds, id)
          \/ Includes(table[roomId].messages[i].activeDownvoteIds, id)

(* C1, as stated: when the snapshot written on behalf of an operation is   *)
(* serialised, no other operation has changed the room table since the     *)
(* operation's own mutation.                                               *)
C1_SnapshotInSameHold ==
    \A t \in Callers : tasks[t].pc \in {"writing", "renaming"} => ~tasks[t].interfered

(* C1, amended: the mutation and the recomputation of the view happen in   *)
(* one hold of the lock, during which no other task changes the table, the *)
(* views or the files; the snapshot is serialised in a later hold of the   *)
(* lock from the room table as it is then, and the table does not change   *)
(* while that snapshot is written and renamed.                             *)
C1_MutationAndViewInOneHold ==
    [][\A t \in Callers :
          /\ (tasks[t].pc \in {"fetching", "profile", "calculated", "writing", "renaming"}
                /\ tasks'[t].pc = tasks[t].pc)
             => UNCHANGED <<byRoom, byRoomKeys, byRoomCached, tmpFile, canonFile>>
          /\ (tasks[t].pc \in {"locked", "profile"} /\ tasks'[t].pc = "calculated")
             => /\ tasks[t].room \in DOMAIN byRoomCached'
                /\ byRoomCached'[tasks[t].room] = CalculateRoom(tasks[t].room, byRoom'[tasks[t].room])
          /\ (tasks[t].pc = "save_locked" /\ tasks'[t].pc = "writing")
             => /\ tasks'[t].json = Stringify(byRoomKeys, byRoom)
                /\ byRoom' = byRoom
                /\ byRoomKeys' = Entered(byRoomKeys, byRoom')
          /\ (tasks[t].pc \in {"writing", "renaming"} /\ tasks'[t].pc # "idle")
             => byRoom' = byRoom
      ]_vars

C1_Witness ==
    \E t \in Callers :
        /\ tasks[t].pc = "writing"
        /\ tasks[t].interfered
        /\ tasks[t].json = Stringify(byRoomKeys, byRoom)

(* C2: a reaction event whose id is already recorded on its target leaves  *)
(* the room table and the views as they are.                               *)
Recorded(t) ==
    /\ tasks[t].room \in DOMAIN byRoom
    /\ \E i \in 1..Len(byRoom[tasks[t].room].messages) :
          LET m == byRoom[tasks[t].room].messages[i]
          IN  /\ m.eventId = tasks[t].target
              /\ Includes(IF tasks[t].isUpvote THEN m.activeUpvoteIds
                                               ELSE m.activeDownvoteIds, tasks[t].id)

C2_RecordReactionIdempotent ==
    [][\A t \in Callers :
          (tasks[t].op = "tryAddReaction" /\ tasks[t].pc = "locked" /\ Recorded(t))
          => (byRoom' = byRoom /\ byRoomCached' = byRoomCached)
      ]_vars

(* C3: the canonical file never holds a partly written document; it only   *)
(* changes by the rename of a completely written temporary file, and that  *)
(* file is the serialisation of the room table.                            *)
C3_CanonicalFileNeverPartial ==
    /\ [](canonFile.state # "partial")
    /\ [][canonFile' # canonFile =>
             /\ tmpFile.state = "complete"
             /\ canonFile' = tmpFile
             /\ canonFile'.doc = Stringify(byRoomKeys, byRoom)
         ]_vars

C3_Witness ==
    /\ restarts = 1
    /\ tmpFile.state = "partial"
    /\ canonFile.state = "complete"
    /\ canonFile.src \notin {NoTable, SavedTable}

(* C4: at most one task is inside a lock-protected section, the lock is    *)
(* held while one is, and every write to the room table, the views and the *)
(* two files is a step of the task that is inside the section.             *)
C4_MutualExclusion ==
    /\ [](/\ Cardinality({t \in Tasks : InSection(t)}) <= 1
          /\ (\E t \in Tasks : InSection(t)) => lock.acquired)
    /\ [][(<<byRoom, byRoomCached, tmpFile, canonFile>>' # <<byRoom, byRoomCached, tmpFile, canonFile>>
             /\ restarts' = restarts)
          => \E t \in Tasks : InSection(t) /\ tasks'[t] # tasks[t]
         ]_vars

C4_Witness ==
    \E t, u \in Tasks :
        /\ InSection(t)
        /\ tasks[u].pc \in {"waiting", "save_waiting"}
        /\ byRoom # NoTable

(* C5: when the lock is free, every entry of a view carries the number of  *)
(* upvote ids minus the number of downvote ids of its tracked message.     *)
C5_ScoreIsUpvotesMinusDownvotes ==
    ~lock.acquired =>
        \A r \in DOMAIN byRoomCached : \A j \in 1..Len(byRoomCached[r].ordered) :
            /\ r \in DOMAIN byRoom
            /\ \E i \in 1..Len(byRoom[r].messages) :
                  LET m == byRoom[r].messages[i]
                  IN  /\ IsEntryOf(byRoomCached[r].ordered[j], r, m)
                      /\ byRoomCached[r].ordered[j].upvotes =
                            Len(m.activeUpvoteIds) - Len(m.activeDownvoteIds)

C5_Witness ==
    /\ ~lock.acquired
    /\ "r1" \in DOMAIN byRoomCached
    /\ \E i \in 1..Len(byRoom["r1"].messages) :
          /\ Len(byRoom["r1"].messages[i].activeUpvoteIds) = 2
          /\ Len(byRoom["r1"].messages[i].activeDownvoteIds) = 1
    /\ \E j \in 1..Len(byRoomCached["r1"].ordered) :
          byRoomCached["r1"].ordered[j].upvotes = 1

(* C6: no reaction event id is in both vote sets of a tracked message.     *)
C6_NoIdInBothSets ==
    \A r \in DOMAIN byRoom : \A i \in 1..Len(byRoom[r].messages) :
        \A k \in 1..Len(byRoom[r].messages[i].activeUpvoteIds) :
            ~Includes(byRoom[r].messages[i].activeDownvoteIds,
                      byRoom[r].messages[i].activeUpvoteIds[k])

C6_Witness ==
    \E r \in DOMAIN byRoom : \E i \in 1..Len(byRoom[r].messages) :
        /\ Len(byRoom[r].messages[i].activeUpvoteIds) >= 2
        /\ Len(byRoom[r].messages[i].activeDownvoteIds) >= 1

(* C7: when the lock is free, the view of a room lists every tracked       *)
(* message once, by score descending, equal scores in tracking order.      *)
TrackIndex(r, entry) ==
    CHOOSE i \in 1..Len(byRoom[r].messages) : byRoom[r].messages[i].eventId = EventIdOf(entry)

C7_RankingSortedStable ==
    ~lock.acquired =>
        \A r \in DOMAIN byRoomCached :
            LET ordered == byRoomCached[r].ordered
                messages == byRoom[r].messages
            IN  /\ Len(ordered) = Len(messages)
                /\ \A i \in 1..Len(messages) :
                      \E j \in 1..Len(ordered) : IsEntryOf(ordered[j], r, messages[i])
                /\ \A j, k \in 1..Len(ordered) :
                      j < k => \/ ordered[j].upvotes > ordered[k].upvotes
                               \/ /\ ordered[j].upvotes = ordered[k].upvotes
                                  /\ TrackIndex(r, ordered[j]) < TrackIndex(r, ordered[k])

C7_Witness ==
    /\ ~lock.acquired
    /\ "r1" \in DOMAIN byRoomCached
    /\ Len(byRoomCached["r1"].ordered) = 2
    /\ byRoomCached["r1"].ordered[1].upvotes = byRoomCached["r1"].ordered[2].upvotes
    /\ EventIdOf(byRoomCached["r1"].ordered[1]) = "m2"
    /\ byRoom["r1"].messages[1].eventId = "m2"

(* C8: load never raises, whatever the canonical file holds.               *)
C8_LoadNeverRaises == tasks[LoadTask].pc \notin {"throwing", "raised"}

(* C9: once load has applied a file to an engine with an empty room table, *)
(* the room table is the one the file was serialised from, its rooms are   *)
(* in the order of the file, so that it serialises to the document that    *)
(* was read, and the view of every room is the projection of that table.   *)
C9_SaveLoadRoundTrip ==
    (tasks[LoadTask].pc = "loaded" /\ tasks[LoadTask].before = NoTable) =>
        /\ byRoom = tasks[LoadTask].src
        /\ Stringify(byRoomKeys, byRoom) = tasks[LoadTask].json
        /\ \A r \in DOMAIN tasks[LoadTask].src :
              /\ r \in DOMAIN byRoomCached
              /\ byRoomCached[r] = CalculateRoom(r, tasks[LoadTask].src[r])

C9_Witness ==
    /\ restarts = 1
    /\ tasks[LoadTask].pc = "loaded"
    /\ tasks[LoadTask].before = NoTable
    /\ byRoom = tasks[LoadTask].src
    /\ "r1" \in DOMAIN byRoom
    /\ Len(byRoom["r1"].messages) = 2
    /\ byRoom["r1"].messages[1].eventId = "m2"

(* C10: load replaces the state of every room of the file by the state in  *)
(* the file and leaves the other rooms alone, whatever was accepted        *)
(* before; it runs while event handlers are in progress.                   *)
C10_LoadOverwritesLiveRooms ==
    tasks[LoadTask].pc = "loaded" =>
        LET rooms == tasks[LoadTask].json.rooms
            before == tasks[LoadTask].before
            inFile == {rooms[i].roomId : i \in 1..Len(rooms)}
        IN  /\ \A i \in 1..Len(rooms) :
                  /\ rooms[i].roomId \in DOMAIN byRoom
                  /\ byRoom[rooms[i].roomId] = ParseRoom(rooms[i])
            /\ DOMAIN byRoom = DOMAIN before \cup inFile
            /\ \A r \in DOMAIN before \ inFile : byRoom[r] = before[r]

C10_Witness ==
    /\ tasks[LoadTask].pc = "loaded"
    /\ HasVote(tasks[LoadTask].before, "r1", "u1")
    /\ ~HasVote(byRoom, "r1", "u1")
    /\ \E t \in Callers : tasks[t].op = "tryAddReaction" /\ tasks[t].id = "u1"
                          /\ tasks[t].pc = "save_waiting"

(* C12: when the fetch of the original message of a reaction on an         *)
(* untracked target ends, by a failed request or by something that is not  *)
(* a plain-text message, the reaction handler does not raise an error.     *)
C12_FetchFailureDropsSilently ==
    [][\A t \in Callers : tasks[t].pc = "fetching" => tasks'[t].pc # "raised"]_vars

(* C11: getScoreboard can be called while an operation holds the lock, in  *)
(* particular while a fetch or a disk write is outstanding; the call       *)
(* returns the view last computed for the room, or undefined when the room *)
(* has no computed view, and it leaves the lock, its queue, the operations *)
(* in progress, the room table, the views and the files as they are.       *)
C11_GetRankingNeverWaits ==
    /\ [](ops + restarts < MaxOps
          => \A roomId \in AuditoriumRooms : ENABLED GetScoreboardCalled(roomId))
    /\ [][(ops' = ops + 1 /\ tasks' = tasks) =>
             /\ served'.room \in AuditoriumRooms
             /\ served'.result = IF served'.room \in DOMAIN byRoomCached
                                 THEN Some(byRoomCached[served'.room])
                                 ELSE Undefined
             /\ served'.held = lock.acquired
             /\ UNCHANGED <<byRoom, byRoomKeys, byRoomCached, lock, tmpFile, canonFile>>
         ]_vars

C11_Witness ==
    /\ restarts = 0
    /\ tasks[LoadTask].op = "idle"
    /\ \E t \in Callers : tasks[t].pc = "fetching" /\ tasks[t].room = "r1"
    /\ "r1" \in DOMAIN byRoom
    /\ served = [room |-> "r1", result |-> Undefined, held |-> TRUE]

(* C13: tryRemoveMessage for the id of a tracked message removes that      *)
(* message from the room: the other messages keep their order, the view is *)
(* recomputed and no longer lists it, and the snapshot is saved next; for   *)
(* an id that no tracked message has, the room table, the views and the    *)
(* files stay as they are and nothing is saved.  A redaction of an id that  *)
(* is in no vote set goes on from tryRemoveReaction to tryRemoveMessage:    *)
(* tryRemoveReaction returns, and the handler calls tryRemoveMessage with   *)
(* the same room and id in its next job.                                    *)
C13_RemoveMessage ==
    [][\A t \in Callers :
          /\ (tasks[t].op = "tryRemoveMessage" /\ tasks[t].pc = "locked" /\ tasks'[t] # tasks[t]) =>
                LET r == tasks[t].room
                    id == tasks[t].id
                    tracked == /\ r \in DOMAIN byRoom
                               /\ \E i \in 1..Len(byRoom[r].messages) :
                                     byRoom[r].messages[i].eventId = id
                IN  IF tracked
                    THEN LET old == byRoom[r].messages
                             new == byRoom'[r].messages
                             idx == CHOOSE i \in 1..Len(old) : old[i].eventId = id
                         IN  /\ Len(new) = Len(old) - 1
                             /\ \A i \in 1..Len(new) : new[i] = IF i < idx THEN old[i] ELSE old[i + 1]
                             /\ \A i \in 1..Len(new) : new[i].eventId # id
                             /\ byRoom'[r].qaStartTime = byRoom[r].qaStartTime
                             /\ \A q \in DOMAIN byRoom \ {r} : byRoom'[q] = byRoom[q]
                             /\ byRoomCached'[r] = CalculateRoom(r, byRoom'[r])
                             /\ \A j \in 1..Len(byRoomCached'[r].ordered) :
                                   EventIdOf(byRoomCached'[r].ordered[j]) # id
                             /\ tasks'[t].pc = "calculated"
                    ELSE /\ UNCHANGED <<byRoom, byRoomKeys, byRoomCached, tmpFile, canonFile>>
                         /\ tasks'[t].op = "idle"
          /\ (/\ tasks[t].op = "tryRemoveReaction" /\ tasks[t].pc = "locked" /\ tasks'[t] # tasks[t]
              /\ ~HasVote(byRoom, tasks[t].room, tasks[t].id))
             => /\ tasks'[t].op = "tryRemoveReaction"
                /\ tasks'[t].pc = "returned"
                /\ tasks'[t].id = tasks[t].id
                /\ UNCHANGED <<byRoom, byRoomKeys, byRoomCached, tmpFile, canonFile>>
          /\ (tasks[t].op = "tryRemoveReaction" /\ tasks[t].pc = "returned" /\ tasks'[t] # tasks[t])
             => /\ tasks'[t].op = "tryRemoveMessage"
                /\ tasks'[t].room = tasks[t].room
                /\ tasks'[t].id = tasks[t].id
                /\ tasks'[t].pc \in {"locked", "waiting", "returned"}
                /\ UNCHANGED <<byRoom, byRoomKeys, byRoomCached, tmpFile, canonFile>>
      ]_vars

C13_Witness ==
    /\ \E t \in Callers : /\ tasks[t].op = "tryRemoveMessage"
                          /\ tasks[t].pc = "calculated"
                          /\ tasks[t].id = "m1"
    /\ Len(byRoom["r1"].messages) = 1
    /\ byRoom["r1"].messages[1].eventId = "m2"
    /\ Len(byRoomCached["r1"].ordered) = 1
    /\ EventIdOf(byRoomCached["r1"].ordered[1]) = "m2"

(* C14: tryRemoveReaction for an id that is in no vote set of the room     *)
(* leaves the room table, the views and the files as they are; and once it *)
(* has run for an id, the id is in no vote set of the room, so that        *)
(* running it again for the same id changes nothing further.               *)
C14_RemoveReactionIdempotent ==
    [][\A t \in Callers :
          (tasks[t].op = "tryRemoveReaction" /\ tasks[t].pc = "locked" /\ tasks'[t] # tasks[t]) =>
              /\ ~HasVote(byRoom, tasks[t].room, tasks[t].id)
                    => UNCHANGED <<byRoom, byRoomKeys, byRoomCached, tmpFile, canonFile>>
              /\ ~HasVote(byRoom', tasks[t].room, tasks[t].id)
      ]_vars

(* C15: tryRemoveReaction for an id that is active on a message removes    *)
(* the id from the vote set that holds it, be it the upvotes or the        *)
(* downvotes, and keeps every other id; the message stays tracked even     *)
(* without votes, and the view shows the recomputed scores.                *)
C15_RemoveReactionFromEitherSet ==
    [][\A t \in Callers :
          (/\ tasks[t].op = "tryRemoveReaction" /\ tasks[t].pc = "locked" /\ tasks'[t] # tasks[t]
           /\ HasVote(byRoom, tasks[t].room, tasks[t].id)) =>
              LET r == tasks[t].room
                  old == byRoom[r].messages
                  new == byRoom'[r].messages
              IN  /\ Len(new) = Len(old)
                  /\ \A i \in 1..Len(old) :
                        /\ new[i].eventId = old[i].eventId
                        /\ new[i].activeUpvoteIds =
                              SelectSeq(old[i].activeUpvoteIds, LAMBDA x : x # tasks[t].id)
                        /\ new[i].activeDownvoteIds =
                              SelectSeq(old[i].activeDownvoteIds, LAMBDA x : x # tasks[t].id)
                  /\ byRoomCached'[r] = CalculateRoom(r, byRoom'[r])
      ]_vars

(* C16: resetScoreboard leaves the room, whatever it held, without a       *)
(* countdown and without tracked messages, and its view empty and without  *)
(* a countdown; the other rooms stay as they are.  Calls take the lock in  *)
(* the order they are made, so a reset called after showQACountdown is     *)
(* applied after it.                                                       *)
C16_ResetClearsRoom ==
    /\ [](\A i, j \in 1..Len(lock.waiting) : i # j => lock.waiting[i] # lock.waiting[j])
    /\ [][/\ \A t \in Callers :
               (tasks[t].op = "resetScoreboard" /\ tasks[t].pc = "locked" /\ tasks'[t] # tasks[t]) =>
                   LET r == tasks[t].room
                   IN  /\ r \in DOMAIN byRoom'
                       /\ byRoom'[r].qaStartTime = Undefined
                       /\ byRoom'[r].messages = <<>>
                       /\ byRoomCached'[r] = [qaStartTime |-> Undefined, ordered |-> <<>>]
                       /\ \A q \in DOMAIN byRoom \ {r} : byRoom'[q] = byRoom[q]
                       /\ \A q \in DOMAIN byRoomCached \ {r} : byRoomCached'[q] = byRoomCached[q]
                       /\ tasks'[t].pc = "calculated"
          /\ \A i \in 1..Len(lock.waiting) :
                \/ restarts' # restarts
                \/ /\ i <= Len(lock'.waiting) /\ lock'.waiting[i] = lock.waiting[i]
                \/ /\ i > 1 /\ i - 1 <= Len(lock'.waiting) /\ lock'.waiting[i - 1] = lock.waiting[i]
                \/ /\ i = 1 /\ tasks'[lock.waiting[1]].pc \in {"locked", "save_locked"}
         ]_vars

C16_Witness ==
    /\ \E t \in Callers : tasks[t].op = "resetScoreboard" /\ tasks[t].pc = "calculated"
                          /\ tasks[t].room = "r1"
    /\ canonFile.state = "complete"
    /\ "r1" \in DOMAIN canonFile.src
    /\ canonFile.src["r1"].qaStartTime = Some(10)
    /\ Len(canonFile.src["r1"].messages) = 1
    /\ byRoom["r1"] = [hasMessages |-> TRUE, qaStartTime |-> Undefined, messages |-> <<>>]
    /\ byRoomCached["r1"] = [qaStartTime |-> Undefined, ordered |-> <<>>]

(* C19: the handler of an event for a room that is no stored auditorium    *)
(* never calls acquireAsync: it is neither in the queue of the lock nor in *)
(* a section, its steps leave the lock, the room table, the views and the  *)
(* files as they are, and no such room gets into the table, the views or   *)
(* the snapshot.                                                           *)
C19_NonAuditoriumEventsDropped ==
    /\ [](/\ \A t \in Callers :
                (tasks[t].op # "idle" /\ tasks[t].room \notin AuditoriumRooms) =>
                    /\ tasks[t].pc = "returned"
                    /\ \A i \in 1..Len(lock.waiting) : lock.waiting[i] # t
          /\ DOMAIN byRoom \subseteq AuditoriumRooms
          /\ DOMAIN byRoomCached \subseteq AuditoriumRooms
          /\ DOMAIN canonFile.src \subseteq AuditoriumRooms)
    /\ [][\A t \in Callers :
             (/\ tasks'[t] # tasks[t]
              /\ restarts' = restarts
              /\ \/ tasks[t].op # "idle" /\ tasks[t].room \notin AuditoriumRooms
                 \/ tasks'[t].op # "idle" /\ tasks'[t].room \notin AuditoriumRooms)
             => UNCHANGED <<byRoom, byRoomKeys, byRoomCached, lock, tmpFile, canonFile>>
         ]_vars

C19_Witness ==
    /\ \E t \in Callers : /\ tasks[t].op = "tryRemoveMessage"
                          /\ tasks[t].room = "r3"
                          /\ tasks[t].pc = "returned"
    /\ \E t \in Callers : tasks[t].op = "tryAddReaction" /\ tasks[t].pc = "fetching"
    /\ lock.acquired

(* C20: no two tracked messages of a room have the same event id; a        *)
(* reaction on a message that is tracked by the time its handler holds the *)
(* lock, as it is when an earlier handler fetched and tracked the message  *)
(* while this one waited, is pushed onto that entry and creates none.      *)
C20_MessageIdsUnique ==
    /\ [](\A r \in DOMAIN byRoom : \A i, j \in 1..Len(byRoom[r].messages) :
             i # j => byRoom[r].messages[i].eventId # byRoom[r].messages[j].eventId)
    /\ [][\A t \in Callers :
             (/\ tasks[t].op = "tryAddReaction" /\ tasks[t].pc = "locked" /\ tasks'[t] # tasks[t]
              /\ tasks[t].room \in DOMAIN byRoom
              /\ \E i \in 1..Len(byRoom[tasks[t].room].messages) :
                    byRoom[tasks[t].room].messages[i].eventId = tasks[t].target)
             => LET old == byRoom[tasks[t].room].messages
                    new == byRoom'[tasks[t].room].messages
                IN  /\ Len(new) = Len(old)
                    /\ \A i \in 1..Len(old) :
                          IF old[i].eventId = tasks[t].target
                          THEN /\ tasks[t].isUpvote =>
                                    new[i].activeUpvoteIds = Append(old[i].activeUpvoteIds, tasks[t].id)
                               /\ ~tasks[t].isUpvote =>
                                    new[i].activeDownvoteIds = Append(old[i].activeDownvoteIds, tasks[t].id)
                          ELSE new[i] = old[i]
         ]_vars

C20_Witness ==
    /\ restarts = 0
    /\ canonFile = AbsentFile
    /\ \E t, u \in Callers :
          /\ tasks[u].op = "tryAddReaction" /\ tasks[u].id = "u1" /\ tasks[u].pc = "save_waiting"
          /\ tasks[t].op = "tryAddReaction" /\ tasks[t].id = "d1" /\ tasks[t].pc = "calculated"
    /\ Len(byRoom["r1"].messages) = 1
    /\ byRoom["r1"].messages[1].eventId = "m1"
    /\ byRoom["r1"].messages[1].activeUpvoteIds = <<"u1">>
    /\ byRoom["r1"].messages[1].activeDownvoteIds = <<"d1">>

(* C17: when every handler has ended, the views are those of the run that  *)
(* handles the same events in the same order one after the other, given    *)
(* the same answers of getEvent, whatever the run under comparison did not *)
(* ask being answered in any one way.                                      *)
Quiescent == \A t \in Callers : tasks[t].op = "idle"

C17_Deterministic ==
    (delivered.on /\ Quiescent) =>
        \A default \in GetEventOutcomes :
            Replay(delivered.events, delivered.base, default).byRoomCached = byRoomCached

(***************************************************************************)
(* C18  Eventual durability.  When every write and rename succeeds and the *)
(* operations keep being resumed: (1) once an operation has made its       *)
(* mutation and recomputed the view, it and all the others eventually get  *)
(* through their saves, so that none is pending;                           *)
(* (2) the save it completes leaves the canonical file complete and equal  *)
(* to the serialisation of the whole room table as it is then, which holds *)
(* that mutation and every later one; (3) whenever no operation is pending *)
(* the canonical file holds, for every room that was mutated (every        *)
(* accepted mutation recomputes the view of its room, so these are the     *)
(* rooms with a view), the serialisation of the room as it is in memory.   *)
(***************************************************************************)
InSave(t) == tasks[t].pc \in {"calculated", "save_waiting", "save_locked", "writing", "renaming"}

SavedRoom(r) ==
    /\ canonFile.state = "complete"
    /\ canonFile.doc.kind = "object"
    /\ canonFile.doc.version = JSON_FORMAT_VERSION
    /\ r \in DOMAIN byRoom
    /\ \E i \in 1..Len(canonFile.doc.rooms) :
           canonFile.doc.rooms[i] = StringifyRoom(r, byRoom[r])

C18_EventualDurability ==
    /\ (\E t \in Callers : InSave(t)) ~> Quiescent
    /\ [][\A t \in Callers :
              (tasks[t].pc = "renaming" /\ tasks'[t].pc # "renaming") =>
                  /\ canonFile'.state = "complete"
                  /\ canonFile'.doc = Stringify(byRoomKeys', byRoom')]_vars
    /\ [](Quiescent => \A r \in DOMAIN byRoomCached : SavedRoom(r))

(* two operations have mutated different rooms, both have saved, nothing   *)
(* is pending and the file holds both rooms as they are in memory          *)
C18_Witness ==
    /\ Quiescent
    /\ ops >= 2
    /\ Cardinality(DOMAIN byRoomCached) >= 2
    /\ \A r \in DOMAIN byRoomCached : SavedRoom(r)
    /\ canonFile.doc = Stringify(byRoomKeys, byRoom)

(***************************************************************************)
(* C21  Whenever the lock is free, every room of the room table has a      *)
(* cached view and the view is the projection of the room as it is now:    *)
(* the same countdown and the same messages ranked.                        *)
(***************************************************************************)
C21_EveryRoomHasCurrentView ==
    ~lock.acquired =>
        \A r \in DOMAIN byRoom :
            /\ r \in DOMAIN byRoomCached
            /\ byRoomCached[r].qaStartTime = byRoom[r].qaStartTime
            /\ SameEntries(byRoomCached[r].ordered, CalculateRoom(r, byRoom[r]).ordered)

(***************************************************************************)
(* C22  A reaction that is dropped because its untracked target could not  *)
(* be resolved or is no plain-text message changes nothing: after a run in *)
(* which only such reactions were delivered and every handler has ended,   *)
(* the room table (the rooms in it too), the views and the canonical file  *)
(* are what they were before the first of the events arrived.              *)
(***************************************************************************)
C22_DroppedReactionIsNoOp ==
    ( /\ delivered.on
      /\ Quiescent
      /\ delivered.events # <<>>
      /\ \A i \in 1..Len(delivered.events) :
             /\ delivered.events[i].kind = "reaction"
             /\ delivered.events[i].answer \in {"throw", "nontext"} ) =>
        /\ byRoom = delivered.base.byRoom
        /\ byRoomCached = delivered.base.byRoomCached
        /\ canonFile \in SavedFiles
        /\ LoadedFrom(canonFile).byRoom = delivered.base.byRoom

(***************************************************************************)
(* C23  A reaction event without a relation, with a relation of another    *)
(* type, with a key that is neither vote emoji, or with a missing or empty *)
(* target event id is dropped when it is delivered: its handler returns    *)
(* without asking for the lock and nothing of the state changes.           *)
(***************************************************************************)
C23_MalformedReactionDroppedBeforeLock ==
    [][\A t \in Callers, event \in AnyReactionEvents :
           ( /\ tasks[t].op = "idle"
             /\ tasks'[t].op = "tryAddReaction"
             /\ tasks'[t].id = event.event_id
             /\ \/ ~event.hasRelation
                \/ event.rel_type # "m.annotation"
                \/ event.key \notin {"+1", "+1 vs16", "-1", "-1 vs16"}
                \/ event.target = Undefined
                \/ event.target = Some("") ) =>
               /\ tasks'[t].pc = "returned"
               /\ lock' = lock
               /\ UNCHANGED <<byRoom, byRoomKeys, byRoomCached, tmpFile, canonFile>>]_vars

(***************************************************************************)
(* C24  The handler of a redaction event in an auditorium attempts         *)
(* tryRemoveMessage whatever tryRemoveReaction did: as long as the process *)
(* runs, a handler that is in tryRemoveReaction goes on to                 *)
(* tryRemoveMessage and never ends before it.                              *)
(***************************************************************************)
C24_RemoveMessageAlwaysAttempted ==
    [][\A t \in Callers :
           ( /\ tasks[t].op = "tryRemoveReaction"
             /\ IsAuditorium(tasks[t].room)
             /\ restarts' = restarts ) =>
               tasks'[t].op \in {"tryRemoveReaction", "tryRemoveMessage"}]_vars

(***************************************************************************)
(* C25  When the write or the rename of a save fails, the error is raised  *)
(* to the caller of the operation, the canonical file is left as it was (a *)
(* complete snapshot or none), the room table and the views keep the       *)
(* mutation, the lock is released, and the operation ends there: it does   *)
(* not save again.                                                         *)
(***************************************************************************)
C25_SaveFailurePropagates ==
    [][\A t \in Callers :
           /\ ( /\ restarts' = restarts
                /\ \/ tasks[t].pc = "writing" /\ tasks'[t].pc \notin {"writing", "renaming"}
                   \/ /\ tasks[t].pc = "renaming"
                      /\ tasks'[t].pc # "renaming"
                      /\ tmpFile' = tmpFile ) =>
                  /\ tasks'[t].pc = "raised"
                  /\ tasks'[t].op = tasks[t].op
                  /\ canonFile' = canonFile
                  /\ canonFile.state \in {"absent", "complete"}
                  /\ byRoom' = byRoom
                  /\ byRoomKeys' = Entered(byRoomKeys, byRoom')
                  /\ byRoomCached' = byRoomCached
                  /\ lock' = Release(lock)
           /\ ( /\ restarts' = restarts
                /\ tasks[t].pc = "raised"
                /\ tasks'[t] # tasks[t] ) =>
                  /\ tasks'[t] = IdleTask
                  /\ UNCHANGED <<byRoom, byRoomKeys, byRoomCached, tmpFile, canonFile, lock>>]_vars

(* the save after the reaction u1 was recorded has failed: the vote is in  *)
(* memory, the file that is still there does not have it, and the handler  *)
(* is about to be rejected                                                 *)
C25_Witness ==
    \E t \in Callers :
        /\ tasks[t].pc = "raised"
        /\ tasks[t].op = "tryAddReaction"
        /\ tmpFile.state \in {"partial", "complete"}
        /\ HasVote(byRoom, "r1", "u1")
        /\ canonFile.state = "complete"
        /\ ~HasVote(canonFile.src, "r1", "u1")

(***************************************************************************)
(* C26  When load applies a snapshot, every room of the file has, while    *)
(* load still holds the lock, a view that is the projection of the room as *)
(* loaded; a room in memory that is not in the file keeps its state and    *)
(* its view.                                                               *)
(***************************************************************************)
C26_LoadRecomputesViews ==
    /\ [](tasks[LoadTask].pc = "loaded" =>
             LET rooms == tasks[LoadTask].json.rooms
             IN  /\ lock.acquired
                 /\ \A i \in 1..Len(rooms) :
                       /\ rooms[i].roomId \in DOMAIN byRoomCached
                       /\ byRoomCached[rooms[i].roomId] =
                              CalculateRoom(rooms[i].roomId, ParseRoom(rooms[i])))
    /\ [][(tasks[LoadTask].pc = "locked" /\ tasks'[LoadTask].seq = tasks[LoadTask].seq + 1) =>
             LET roomId == tasks[LoadTask].json.rooms[tasks'[LoadTask].seq].roomId
             IN  /\ DOMAIN byRoomCached' = DOMAIN byRoomCached \cup {roomId}
                 /\ \A r \in DOMAIN byRoomCached \ {roomId} : byRoomCached'[r] = byRoomCached[r]
                 /\ \A r \in DOMAIN byRoom \ {roomId} : byRoom'[r] = byRoom[r]
         ]_vars

(* load has applied a file that holds r1 with a ranked message, while r2,  *)
(* which is not in the file, had got a countdown and a view before         *)
C26_Witness ==
    /\ tasks[LoadTask].pc = "loaded"
    /\ Len(tasks[LoadTask].json.rooms) = 1
    /\ tasks[LoadTask].json.rooms[1].roomId = "r1"
    /\ "r1" \in DOMAIN byRoomCached
    /\ Len(byRoomCached["r1"].ordered) = 1
    /\ "r2" \in DOMAIN byRoomCached
    /\ byRoomCached["r2"].qaStartTime # Undefined

(***************************************************************************)
(* C27  showQACountdown(room, t) gives a room that does not exist an empty *)
(* state and changes nothing but the countdown of one that exists: the     *)
(* messages, their vote lists and their order stay, and the view of the    *)
(* room afterwards has the countdown t and the ranked entries it had       *)
(* before (none when the room had no view), their permalinks built anew.   *)
(***************************************************************************)
C27_CountdownChangesOnlyCountdown ==
    [][\A t \in Callers :
           ( /\ tasks[t].op = "showQACountdown"
             /\ tasks[t].pc = "locked"
             /\ tasks'[t].pc # "locked"
             /\ restarts' = restarts ) =>
               LET r == tasks[t].room
                   qa == Some(tasks[t].qaStartTime)
               IN  /\ r \in DOMAIN byRoom'
                   /\ byRoom'[r].qaStartTime = qa
                   /\ byRoom'[r].messages =
                          IF r \in DOMAIN byRoom THEN byRoom[r].messages ELSE <<>>
                   /\ r \in DOMAIN byRoomCached'
                   /\ byRoomCached'[r].qaStartTime = qa
                   /\ SameEntries(byRoomCached'[r].ordered,
                                   IF r \in DOMAIN byRoomCached THEN byRoomCached[r].ordered
                                                                ELSE <<>>)]_vars

(* the countdown of r1 was set while r1 had a message with a vote: the     *)
(* message is still tracked and ranked                                     *)
C27_Witness ==
    \E t \in Callers :
        /\ tasks[t].op = "showQACountdown"
        /\ tasks[t].pc = "calculated"
        /\ tasks[t].room = "r1"
        /\ byRoom["r1"].qaStartTime = Some(tasks[t].qaStartTime)
        /\ Len(byRoom["r1"].messages) = 1
        /\ HasVote(byRoom, "r1", "u2")
        /\ Len(byRoomCached["r1"].ordered) = 1
        /\ byRoomCached["r1"].qaStartTime = Some(tasks[t].qaStartTime)

(***************************************************************************)
(* C28  When getEvent answers a plain-text message for the first reaction  *)
(* on it and getUserProfile fails for its sender, the message is tracked   *)
(* with the reaction in its vote list and without display name and avatar, *)
(* its entry is in the view with that one vote, and the operation goes on  *)
(* to its save: no error is raised.                                        *)
(***************************************************************************)
C28_ProfileFailureStillTracks ==
    [][\A t \in Callers :
           ( /\ tasks[t].op = "tryAddReaction"
             /\ tasks[t].pc = "profile"
             /\ tasks'[t].pc # "profile"
             /\ GetUserProfile(tasks[t].target) = "throw"
             /\ delivered.on /\ delivered'.on
             /\ tasks[t].seq > 0
             /\ delivered.events[tasks[t].seq].answer = "text" ) =>
               LET r == tasks[t].room
                   idx == FindMessage(byRoom'[r].messages, tasks[t].target)
                   message == byRoom'[r].messages[idx]
                   votes == IF tasks[t].isUpvote THEN message.activeUpvoteIds
                                                 ELSE message.activeDownvoteIds
                   others == IF tasks[t].isUpvote THEN message.activeDownvoteIds
                                                  ELSE message.activeUpvoteIds
               IN  /\ tasks'[t].pc = "calculated"
                   /\ idx = Len(byRoom'[r].messages)
                   /\ idx = Len(byRoom[r].messages) + 1
                   /\ message.senderName = Undefined
                   /\ message.senderHttpUrl = Undefined
                   /\ votes = <<tasks[t].id>>
                   /\ others = <<>>
                   /\ \E i \in 1..Len(byRoomCached'[r].ordered) :
                          LET entry == byRoomCached'[r].ordered[i]
                          IN  /\ entry.permalink = Permalink(r, tasks[t].target)
                              /\ entry.senderName = Undefined
                              /\ entry.senderAvatarHttpUrl = Undefined
                              /\ entry.upvotes = IF tasks[t].isUpvote THEN 1 ELSE -1]_vars

(* m2, whose sender's profile cannot be fetched, is tracked in r1 with the *)
(* upvote v1 and without a name, and the handler is on its way to save     *)
C28_Witness ==
    \E t \in Callers :
        /\ tasks[t].op = "tryAddReaction"
        /\ tasks[t].pc = "calculated"
        /\ tasks[t].target = "m2"
        /\ delivered.on
        /\ delivered.events[tasks[t].seq].answer = "text"
        /\ "r1" \in DOMAIN byRoom
        /\ LET idx == FindMessage(byRoom["r1"].messages, "m2")
           IN  /\ idx > 0
               /\ byRoom["r1"].messages[idx].senderName = Undefined
               /\ byRoom["r1"].messages[idx].activeUpvoteIds = <<"v1">>

(***************************************************************************)
(* C30  Room isolation.  resetScoreboard, showQACountdown, a reaction or a *)
(* redaction for one room leaves every other room as it is: whenever the   *)
(* state or the view of a room changes (its coming into being included)    *)
(* while the process runs and load is not applying a file, the step is one *)
(* of an operation on that very room.                                      *)
(***************************************************************************)
C30_RoomIsolation ==
    [][( /\ restarts' = restarts
         /\ tasks'[LoadTask] = tasks[LoadTask] ) =>
           \A b \in {"r1", "r2", "r3"} :
               ( \/ (b \in DOMAIN byRoom) # (b \in DOMAIN byRoom')
                 \/ (b \in DOMAIN byRoomCached) # (b \in DOMAIN byRoomCached')
                 \/ b \in DOMAIN byRoom /\ byRoom'[b] # byRoom[b]
                 \/ b \in DOMAIN byRoomCached /\ byRoomCached'[b] # byRoomCached[b] ) =>
                   \E t \in Callers :
                       /\ tasks[t].room = b
                       /\ tasks[t].pc \in {"locked", "profile"}
                       /\ tasks'[t].pc # tasks[t].pc]_vars

(* the countdown of r2 has just been set while r1 holds a message with a   *)
(* vote and its view                                                       *)
C30_Witness ==
    \E t \in Callers :
        /\ tasks[t].op = "showQACountdown"
        /\ tasks[t].room = "r2"
        /\ tasks[t].pc = "calculated"
        /\ "r2" \in DOMAIN byRoomCached
        /\ "r1" \in DOMAIN byRoom
        /\ Len(byRoom["r1"].messages) = 1
        /\ "r1" \in DOMAIN byRoomCached
        /\ Len(byRoomCached["r1"].ordered) = 1

(***************************************************************************)
(* C29  The lock is released on every way out of an operation: whenever it *)
(* is held, an operation that has not ended is inside its section, and     *)
(* operations wait only while it is held.  So, when the event loop keeps   *)
(* running, the operations waiting for the lock all get it: from a state   *)
(* with a waiter a state without any is reached.                           *)
(***************************************************************************)
C29_LockAlwaysReleased ==
    /\ [](lock.acquired => \E t \in Tasks : InSection(t))
    /\ []((\E t \in Tasks : tasks[t].pc \in {"waiting", "save_waiting"}) => lock.acquired)
    /\ (\E t \in Tasks : tasks[t].pc \in {"waiting", "save_waiting"})
           ~> (\A t \in Tasks : tasks[t].pc \notin {"waiting", "save_waiting"})

(* an operation waits for the lock behind one whose request is about to    *)
(* fail                                                                    *)
C29_Witness ==
    \E t, u \in Callers :
        /\ tasks[t].pc = "fetching"
        /\ tasks[u].pc = "waiting"
        /\ lock.waiting = <<u>>

(***************************************************************************)
(* C31: in CheckInMap an entry for a user comes into being only in the     *)
(* section of expectCheckinFrom called with that user, with expires 0, or  *)
(* when load takes it over from checkins.json: the room.event listener and *)
(* extendCheckin never create one.  expectCheckinFrom leaves the entry of  *)
(* every user who has one as it is.  So a user who is not reported as      *)
(* checked in by isCheckedIn comes to be reported so only with an entry    *)
(* that was there before, or at the load.                                  *)
(***************************************************************************)
C31_EntriesOnlyFromExpectOrLoad ==
    [][\A u \in Users :
          LET expectStep ==
                  \E t \in Callers :
                      /\ checkinTasks[t].op = "expectCheckinFrom"
                      /\ checkinTasks[t].pc = "locked"
                      /\ checkinTasks'[t].pc = "persisting"
              expectStepWith ==
                  \E t \in Callers :
                      /\ checkinTasks[t].op = "expectCheckinFrom"
                      /\ checkinTasks[t].pc = "locked"
                      /\ checkinTasks'[t].pc = "persisting"
                      /\ \E i \in 1..Len(checkinTasks[t].userIds) : checkinTasks[t].userIds[i] = u
              loadStep ==
                  /\ checkinTasks[LoadTask].pc = "reading"
                  /\ checkinTasks'[LoadTask].pc = "done"
          IN  /\ (u \notin DOMAIN checkedIn /\ u \in DOMAIN checkedIn') =>
                     \/ expectStepWith /\ checkedIn'[u].expires = 0
                     \/ /\ loadStep
                        /\ checkinsFile.state = "complete"
                        /\ u \in DOMAIN checkinsFile.content
                        /\ checkedIn'[u] = checkinsFile.content[u]
              /\ (expectStep /\ u \in DOMAIN checkedIn) =>
                     /\ u \in DOMAIN checkedIn'
                     /\ checkedIn'[u] = checkedIn[u]
              /\ (~IsCheckedIn(u) /\ IsCheckedIn(u)') =>
                     u \in DOMAIN checkedIn \/ loadStep
      ]_vars

(* expectCheckinFrom has run for a user whose entry, with an expiry ahead, *)
(* is still there, while extendCheckin is queued for a user without entry, *)
(* after an event or a call before                                         *)
C31_Witness ==
    \E t \in Callers, t2 \in Callers :
        /\ checkinTasks[t].op = "expectCheckinFrom"
        /\ checkinTasks[t].pc = "persisting"
        /\ checkinTasks[t].userIds = <<"@a", "@b">>
        /\ IsCheckedIn("@a")
        /\ checkedIn["@b"].expires = 0
        /\ checkinTasks[t2].op = "extendCheckin"
        /\ checkinTasks[t2].userIds = <<"@b">>
        /\ checkinTasks[t2].pc = "waiting"

(***************************************************************************)
(* C32: once run with the argument 'all' has gone through plumbAll, every  *)
(* stored auditorium and then every stored interest room has been taken    *)
(* up, in this order, and every room whose channel name could not be       *)
(* derived has a warning logged for it, as a room whose plumbing failed    *)
(* has.                                                                    *)
(***************************************************************************)
C32_EveryRoomAttempted ==
    LET rooms == conference.storedAuditoriums \o conference.storedInterestRooms
        InSeq(s, x) == \E k \in 1..Len(s) : s[k] = x
    IN  (plumbRun.pc = "done" /\ plumbRun.phase # "") =>
            /\ plumbRun.derived = [k \in 1..Len(rooms) |-> rooms[k].roomId]
            /\ \A k \in 1..Len(rooms) :
                   rooms[k].name = "" => InSeq(plumbRun.warned, rooms[k].roomId)

(***************************************************************************)
(* C33: the promise of a call of executeCommand that has sent its request  *)
(* settles once: resolved, with the first reply in the bridge room that    *)
(* refers to the request, or rejected, after the timeout has fired; and    *)
(* once it has settled, the room.message listener of the call is no longer *)
(* registered on the client.                                               *)
(***************************************************************************)
C33_SettledOnceListenerRemoved ==
    \A c \in Commands :
        commands[c].requestEventId # "" =>
            /\ commands[c].settles <= 1
            /\ commands[c].promise = "resolved" =>
                   /\ commands[c].replies # <<>>
                   /\ commands[c].value = commands[c].replies[1]
            /\ commands[c].promise = "rejected" => commands[c].timer = "fired"
            /\ commands[c].promise \in {"resolved", "rejected"} => c \notin listeners

====
